---- MODULE Spec2Model ----
(***************************************************************************)
(* CELS Widgets: the focus / navigation input engine (src/src/focus.c) and *)
(* the text input edit engine (src/src/behavioral.c).                      *)
(*                                                                         *)
(* The entity store is a record of component maps over the entities 1..n;  *)
(* entity 0 is "no entity".  Queries and ecs_children enumerate entities   *)
(* in ascending id order.  Axis values are fixed-point tenths (10 = 1.0).  *)
(***************************************************************************)
EXTENDS Integers, Sequences, FiniteSets, TLC

VARIABLES
    world,                  \* the entity store (components by entity)
    W_NavigationState,      \* [active_scope, scope_depth]
    W_FocusState,           \* [focused_entity, focus_count, focus_index]
    s_prev_input,           \* focus.c: previous frame's CELS_Input
    s_prev_focused_window,  \* focus.c: window focused in the previous frame
    s_drag_target,          \* focus.c: drag engine's target window
    s_drag_moving,          \* focus.c: drag engine's move-mode flag
    calls,                  \* callbacks invoked by the last engine call
    phase,                  \* the last step: "init", "frame" (focus system), "text" or "env"
    tick,                   \* parity of the number of engine calls so far
    drv                     \* scenario driver (scripted input sequences)

vars == <<world, W_NavigationState, W_FocusState, s_prev_input,
          s_prev_focused_window, s_drag_target, s_drag_moving, calls, phase, tick, drv>>

(***************************************************************************)
(* Program constants                                                       *)
(***************************************************************************)
MAX_NAV_CHILDREN == 64
AXIS_THRESHOLD == 5
KEY_ESCAPE == 27
KEY_M == 109
CELS_KEY_CTRL_UP == 600
CELS_KEY_CTRL_DOWN == 601
CELS_KEY_CTRL_RIGHT == 602
CELS_KEY_CTRL_LEFT == 603
MAX_PARENT_DEPTH == 32
Z_ORDER_CEILING == 49
WINDOW_Z_BASE == 150
MODAL_Z_DEFAULT == 200
KEY_PRINT_MIN == 32
KEY_PRINT_MAX == 126
TEXT_HARD_CAP == 255
VISIBLE_WIDTH == 30

(***************************************************************************)
(* Bounds of the model                                                     *)
(***************************************************************************)
MaxChildren == 4

NoEnt == 0

(***************************************************************************)
(* CELS_Input                                                              *)
(***************************************************************************)
ZeroInput ==
    [axis_left0 |-> 0, axis_left1 |-> 0,
     button_accept |-> FALSE, button_cancel |-> FALSE,
     has_raw_key |-> FALSE, raw_key |-> 0,
     key_tab |-> FALSE, key_shift_tab |-> FALSE,
     key_backspace |-> FALSE, key_delete |-> FALSE,
     key_home |-> FALSE, key_end |-> FALSE,
     key_page_up |-> FALSE, key_page_down |-> FALSE]

\* axis < -0.5f now, >= -0.5f in the previous frame
NegEdge(cur, prev) == cur < -AXIS_THRESHOLD /\ prev >= -AXIS_THRESHOLD
\* axis > 0.5f now, <= 0.5f in the previous frame
PosEdge(cur, prev) == cur > AXIS_THRESHOLD /\ prev <= AXIS_THRESHOLD

\* variant of ButtonEdge: a level test in place of the edge test
ButtonEdge_Level(cur, prev) == cur

\* button down now, up in the previous frame
ButtonEdge(cur, prev) == cur /\ ~prev
\* raw key k present now, not present in the previous frame
RawKeyEdge(in, prev, k) ==
    in.has_raw_key /\ in.raw_key = k /\ ~(prev.has_raw_key /\ prev.raw_key = k)

(***************************************************************************)
(* Entity store                                                            *)
(***************************************************************************)
\* A component map is a function from the entities that carry the component to its
\* value; marker components (W_Focusable, W_ScrollContainer) are sets of entities.
Has(comp, e) == e \in DOMAIN comp

\* ecs_set_id: attach or overwrite the component of entity e
Set(comp, e, v) == (e :> v) @@ comp

EmptyWorld(n) ==
    [n |-> n,
     parent |-> [e \in 1..n |-> NoEnt],
     W_NavigationScope |-> <<>>,   \* [wrap, direction, selected_index, child_count]
     W_Selectable |-> <<>>,        \* [selected]
     W_InteractState |-> <<>>,     \* [focused, selected, disabled]
     W_Button |-> <<>>,            \* [on_press]: the callback is set
     W_Collapsible |-> <<>>,       \* [collapsed]
     W_Modal |-> <<>>,             \* [visible, on_dismiss]
     W_OverlayState |-> <<>>,      \* [visible, z_index, modal]
     W_Window |-> <<>>,            \* [visible, x, y, width, height, z_order, on_close]
     W_Draggable |-> <<>>,         \* [moving]
     W_SplitPane |-> <<>>,         \* [direction]
     W_ScrollContainer |-> {},
     W_Scrollable |-> <<>>,        \* [scroll_offset, total_count, visible_count]
     W_RangeValueI |-> <<>>,       \* [value, min, max, step]: int
     W_RangeValueF |-> <<>>,       \* [value, min, max, step]: float
     W_Focusable |-> {},
     W_TextInput |-> <<>>,         \* [max_length, multiline, on_change, on_submit]
     W_TextInputBuffer |-> <<>>,   \* [initialized, buffer, length, byte_length, cursor_pos,
                                   \*  sel_start, sel_end, scroll_x]
     term |-> [has |-> FALSE, width |-> 0, height |-> 0]]

\* the entities of the store, in store order
Entities(n) == [i \in 1..n |-> i]

\* ecs_children(world, p): the children of p in store order
ecs_children(w, p) == SelectSeq(Entities(w.n), LAMBDA e : w.parent[e] = p)

\* the entities of the set ids, in query order
Query(n, ids) == SelectSeq(Entities(n), LAMBDA e : e \in ids)

\* the position of entity c in the sequence es
IndexOf(es, c) == CHOOSE i \in 1..Len(es) : es[i] = c

InSeq(es, c) == \E i \in 1..Len(es) : es[i] = c

(***************************************************************************)
(* Navigation scope management                                             *)
(***************************************************************************)
widgets_nav_scope_push(ns, scope_entity) ==
    [active_scope |-> scope_entity, scope_depth |-> ns.scope_depth + 1]

widgets_nav_scope_pop_Unguarded(ns) ==
    LET d == ns.scope_depth - 1
    IN [active_scope |-> IF d = 0 THEN NoEnt ELSE ns.active_scope,
        scope_depth |-> d]

widgets_nav_scope_pop(ns) ==
    LET d == IF ns.scope_depth > 0 THEN ns.scope_depth - 1 ELSE ns.scope_depth
    IN [active_scope |-> IF d = 0 THEN NoEnt ELSE ns.active_scope,
        scope_depth |-> d]

widgets_nav_scope_active(ns) == ns.active_scope

(***************************************************************************)
(* Navigation Scope Engine: process_navigation_groups                      *)
(*                                                                         *)
(* A machine value m carries everything a frame may change:                *)
(* [w, nav, fs, pfw, dt, dm, calls].                                       *)
(***************************************************************************)

\* children[]: the children of nav_entity that carry W_Selectable, the first
\* MAX_NAV_CHILDREN of them
CollectSelectable(w, nav_entity) ==
    LET sel == SelectSeq(ecs_children(w, nav_entity), LAMBDA c : Has(w.W_Selectable, c))
    IN IF Len(sel) > MAX_NAV_CHILDREN THEN SubSeq(sel, 1, MAX_NAV_CHILDREN) ELSE sel

\* variant of ClampIndex: selected_index taken as it is
ClampIndex_NoClamp(idx, child_count) == idx

\* clamp selected_index to the valid range (child_count > 0)
ClampIndex(idx, child_count) ==
    LET a == IF idx >= child_count THEN child_count - 1 ELSE idx
    IN IF a < 0 THEN 0 ELSE a

\* the prev / next edges of a scope: the axis matching its direction
NavPrev(direction, in, prev) ==
    IF direction = 0 THEN NegEdge(in.axis_left1, prev.axis_left1)
                     ELSE NegEdge(in.axis_left0, prev.axis_left0)

NavNext(direction, in, prev) ==
    IF direction = 0 THEN PosEdge(in.axis_left1, prev.axis_left1)
                     ELSE PosEdge(in.axis_left0, prev.axis_left0)

\* selected_index-- with wrap-around or saturation at 0
CyclePrev(idx, child_count, wrap) ==
    IF idx - 1 < 0 THEN (IF wrap THEN child_count - 1 ELSE 0) ELSE idx - 1

\* variant of CycleNext: next never wraps
CycleNext_Saturate(idx, child_count, wrap) ==
    IF idx + 1 >= child_count THEN child_count - 1 ELSE idx + 1

\* variant of CycleNext: next always wraps
CycleNext_AlwaysWrap(idx, child_count, wrap) ==
    IF idx + 1 >= child_count THEN 0 ELSE idx + 1

\* selected_index++ with wrap-around or saturation at the last child
CycleNext(idx, child_count, wrap) ==
    IF idx + 1 >= child_count THEN (IF wrap THEN 0 ELSE child_count - 1) ELSE idx + 1

\* selected_index after clamping and cycling
NewIndex(scope, child_count, in, prev) ==
    LET c == ClampIndex(scope.selected_index, child_count)
        p == IF NavPrev(scope.direction, in, prev) THEN CyclePrev(c, child_count, scope.wrap) ELSE c
    IN IF NavNext(scope.direction, in, prev) THEN CycleNext(p, child_count, scope.wrap) ELSE p

\* variant of IsSelected: every child up to the selected one counts as selected
IsSelected_UpTo(i, selected_index) == i <= selected_index

\* child i (0-based) of the collected children is the selected one
IsSelected(i, selected_index) == i = selected_index

\* write W_Selectable.selected and W_InteractState.selected on every collected child:
\* child i is written selected iff IsSelected(i, selected_index)
ApplySelection(w, children, selected_index) ==
    LET positions == SelectSeq(Entities(Len(children)),
                               LAMBDA i : IsSelected(i - 1, selected_index))
        chosen == {children[positions[j]] : j \in 1..Len(positions)}
        cs == {children[i] : i \in 1..Len(children)}
    IN [w EXCEPT
          !.W_Selectable = [c \in DOMAIN @ |->
              IF c \in cs THEN [selected |-> c \in chosen] ELSE @[c]],
          !.W_InteractState = [c \in DOMAIN @ |->
              IF c \in cs THEN [@[c] EXCEPT !.selected = c \in chosen] ELSE @[c]]]

\* variant of Activate: the accept edge activates the first collected child
Activate_First(m, children, selected_index, in, prev) ==
    IF ButtonEdge(in.button_accept, prev.button_accept)
       /\ selected_index >= 0 /\ selected_index < Len(children)
    THEN LET selected_child == children[1]
             m1 == IF Has(m.w.W_Button, selected_child) /\ m.w.W_Button[selected_child].on_press
                   THEN [m EXCEPT !.calls = Append(@, <<"on_press", selected_child>>)]
                   ELSE m
         IN IF Has(m1.w.W_Collapsible, selected_child)
            THEN [m1 EXCEPT !.w.W_Collapsible[selected_child].collapsed = ~@]
            ELSE m1
    ELSE m

\* accept edge: press the selected child's button, toggle its collapsible
Activate(m, children, selected_index, in, prev) ==
    IF ButtonEdge(in.button_accept, prev.button_accept)
       /\ selected_index >= 0 /\ selected_index < Len(children)
    THEN LET selected_child == children[selected_index + 1]
             m1 == IF Has(m.w.W_Button, selected_child) /\ m.w.W_Button[selected_child].on_press
                   THEN [m EXCEPT !.calls = Append(@, <<"on_press", selected_child>>)]
                   ELSE m
         IN IF Has(m1.w.W_Collapsible, selected_child)
            THEN [m1 EXCEPT !.w.W_Collapsible[selected_child].collapsed = ~@]
            ELSE m1
    ELSE m

\* the body of the loop for one W_NavigationScope entity
NavigationGroup(m, nav_entity, in, prev) ==
    LET scope == m.w.W_NavigationScope[nav_entity]
        children == CollectSelectable(m.w, nav_entity)
        child_count == Len(children)
    IN IF child_count = 0
       THEN [m EXCEPT !.w.W_NavigationScope[nav_entity].child_count = 0]
       ELSE LET idx == NewIndex(scope, child_count, in, prev)
                m1 == [m EXCEPT !.w.W_NavigationScope[nav_entity].child_count = child_count,
                                !.w.W_NavigationScope[nav_entity].selected_index = idx]
                m2 == [m1 EXCEPT !.w = ApplySelection(m1.w, children, idx)]
            IN Activate(m2, children, idx, in, prev)

RECURSIVE NavigationGroupsFrom(_, _, _, _, _)
NavigationGroupsFrom(m, q, i, in, prev) ==
    IF i > Len(q) THEN m
    ELSE NavigationGroupsFrom(NavigationGroup(m, q[i], in, prev), q, i + 1, in, prev)

process_navigation_groups(m, in, prev) ==
    NavigationGroupsFrom(m, Query(m.w.n, DOMAIN m.w.W_NavigationScope), 1, in, prev)

(***************************************************************************)
(* Modal overlay: Escape dismisses the topmost visible modal               *)
(***************************************************************************)
ModalZ(w, e) == IF Has(w.W_OverlayState, e) THEN w.W_OverlayState[e].z_index ELSE MODAL_Z_DEFAULT

\* the scan for the visible modal with the highest z_index: <<top_modal, top_z>>
RECURSIVE TopModalFrom(_, _, _, _)
TopModalFrom(w, q, i, top) ==
    IF i > Len(q) THEN top
    ELSE TopModalFrom(w, q, i + 1,
            IF w.W_Modal[q[i]].visible /\ ModalZ(w, q[i]) > top[2]
            THEN <<q[i], ModalZ(w, q[i])>> ELSE top)

TopModal(w) ==
    TopModalFrom(w, Query(w.n, DOMAIN w.W_Modal), 1, <<NoEnt, -1>>)[1]

process_modal_overlay(m, in, prev) ==
    IF ~RawKeyEdge(in, prev, KEY_ESCAPE) THEN m
    ELSE LET top_modal == TopModal(m.w)
         IN IF top_modal = NoEnt THEN m
            ELSE LET m1 == IF m.w.W_Modal[top_modal].on_dismiss
                           THEN [m EXCEPT !.calls = Append(@, <<"on_dismiss", top_modal>>)]
                           ELSE m
                 IN [m1 EXCEPT !.nav = widgets_nav_scope_pop(@)]


(***************************************************************************)
(* Window overlay: Escape dismiss, focus-to-raise, z-band compaction       *)
(***************************************************************************)
WindowQuery(w) == Query(w.n, DOMAIN w.W_Window)

\* <<top_window, max_z_order>> over the visible windows
RECURSIVE TopWindowFrom(_, _, _, _)
TopWindowFrom(w, q, i, top) ==
    IF i > Len(q) THEN top
    ELSE TopWindowFrom(w, q, i + 1,
            IF w.W_Window[q[i]].visible /\ w.W_Window[q[i]].z_order > top[2]
            THEN <<q[i], w.W_Window[q[i]].z_order>> ELSE top)

TopWindow(w) == TopWindowFrom(w, WindowQuery(w), 1, <<NoEnt, -1>>)

\* variant of ModalVisible: the window pass does not look for modals
ModalVisible_Ignored(w) == FALSE

\* some modal is visible: modals take priority over windows
ModalVisible(w) == \E e \in DOMAIN w.W_Modal : w.W_Modal[e].visible

\* the window holding the focus: the focused entity itself or its parent window
WindowHasFocus(w, we, focused_entity) ==
    \/ focused_entity = we
    \/ \E i \in 1..Len(ecs_children(w, we)) : ecs_children(w, we)[i] = focused_entity

RECURSIVE FocusedWindowFrom(_, _, _, _)
FocusedWindowFrom(w, q, i, focused_entity) ==
    IF i > Len(q) THEN NoEnt
    ELSE IF w.W_Window[q[i]].visible /\ WindowHasFocus(w, q[i], focused_entity)
         THEN q[i]
         ELSE FocusedWindowFrom(w, q, i + 1, focused_entity)

FocusedWindow(w, focused_entity) == FocusedWindowFrom(w, WindowQuery(w), 1, focused_entity)

WindowOverlay(z_order) == [visible |-> TRUE, z_index |-> WINDOW_Z_BASE + z_order, modal |-> TRUE]

\* the minimum z_order of the visible windows, starting from new_z
RECURSIVE MinZFrom(_, _, _, _)
MinZFrom(w, q, i, min_z) ==
    IF i > Len(q) THEN min_z
    ELSE MinZFrom(w, q, i + 1,
            IF w.W_Window[q[i]].visible /\ w.W_Window[q[i]].z_order < min_z
            THEN w.W_Window[q[i]].z_order ELSE min_z)

\* variant of Compact: every visible window is moved to the bottom of the band
Compact_ToZero(w, min_z) ==
    LET vis == {e \in DOMAIN w.W_Window : w.W_Window[e].visible}
    IN [w EXCEPT
          !.W_Window = [e \in DOMAIN w.W_Window |->
              IF e \in vis THEN [w.W_Window[e] EXCEPT !.z_order = 0] ELSE w.W_Window[e]],
          !.W_OverlayState = [e \in DOMAIN w.W_OverlayState \cup vis |->
              IF e \in vis THEN WindowOverlay(0) ELSE w.W_OverlayState[e]]]

\* subtract min_z from every visible window and rewrite its overlay state
Compact(w, min_z) ==
    LET vis == {e \in DOMAIN w.W_Window : w.W_Window[e].visible}
    IN [w EXCEPT
          !.W_Window = [e \in DOMAIN w.W_Window |->
              IF e \in vis THEN [w.W_Window[e] EXCEPT !.z_order = @ - min_z] ELSE w.W_Window[e]],
          !.W_OverlayState = [e \in DOMAIN w.W_OverlayState \cup vis |->
              IF e \in vis THEN WindowOverlay(w.W_Window[e].z_order - min_z)
              ELSE w.W_OverlayState[e]]]

\* variant of Raise: the focused window is given the current maximum
Raise_ToMax(w, focused_window, max_z_order) ==
    LET new_z0 == max_z_order
        compact == new_z0 > Z_ORDER_CEILING
        min_z == MinZFrom(w, WindowQuery(w), 1, new_z0)
        w1 == IF compact THEN Compact(w, min_z) ELSE w
        new_z == IF compact THEN max_z_order - min_z ELSE new_z0
    IN [w1 EXCEPT !.W_Window[focused_window].z_order = new_z,
                  !.W_OverlayState = Set(@, focused_window, WindowOverlay(new_z))]

\* the focused window goes on top: max + 1, after compaction when that
\* exceeds the ceiling of the window band
Raise(w, focused_window, max_z_order) ==
    LET new_z0 == max_z_order + 1
        compact == new_z0 > Z_ORDER_CEILING
        min_z == MinZFrom(w, WindowQuery(w), 1, new_z0)
        w1 == IF compact THEN Compact(w, min_z) ELSE w
        new_z == IF compact THEN max_z_order - min_z + 1 ELSE new_z0
    IN [w1 EXCEPT !.W_Window[focused_window].z_order = new_z,
                  !.W_OverlayState = Set(@, focused_window, WindowOverlay(new_z))]

process_window_overlay(m, in, prev) ==
    LET top == TopWindow(m.w)
        top_window == top[1]
        max_z_order == top[2]
        dismiss == RawKeyEdge(in, prev, KEY_ESCAPE) /\ ~ModalVisible(m.w) /\ top_window # NoEnt
        m1 == IF dismiss /\ m.w.W_Window[top_window].on_close
              THEN [m EXCEPT !.calls = Append(@, <<"on_close", top_window>>)]
              ELSE m
        m2 == IF dismiss THEN [m1 EXCEPT !.nav = widgets_nav_scope_pop(@)] ELSE m1
        focused_window == FocusedWindow(m2.w, m2.fs.focused_entity)
        m3 == IF focused_window # NoEnt /\ focused_window # m2.pfw
              THEN [m2 EXCEPT !.w = Raise(m2.w, focused_window, max_z_order)]
              ELSE m2
    IN [m3 EXCEPT !.pfw = focused_window]

(***************************************************************************)
(* Window dragging: move mode                                              *)
(***************************************************************************)
RECURSIVE DragTargetFrom(_, _, _, _)
DragTargetFrom(w, q, i, top) ==
    IF i > Len(q) THEN top
    ELSE DragTargetFrom(w, q, i + 1,
            IF w.W_Window[q[i]].visible /\ w.W_Window[q[i]].z_order > top[2]
            THEN <<q[i], w.W_Window[q[i]].z_order>> ELSE top)

DragTarget(w) ==
    DragTargetFrom(w, Query(w.n, DOMAIN w.W_Window \cap DOMAIN w.W_Draggable), 1,
                   <<NoEnt, -1>>)[1]

\* variant of MoveWindow: the lower bound 1 of the clamp is left out
MoveWindow_NoFloor(win, term, in, prev) ==
    LET y1 == IF NegEdge(in.axis_left1, prev.axis_left1) THEN win.y - 1 ELSE win.y
        y2 == IF PosEdge(in.axis_left1, prev.axis_left1) THEN y1 + 1 ELSE y1
        x1 == IF NegEdge(in.axis_left0, prev.axis_left0) THEN win.x - 1 ELSE win.x
        x2 == IF PosEdge(in.axis_left0, prev.axis_left0) THEN x1 + 1 ELSE x1
        term_w == IF term.has /\ term.width > 0 THEN term.width ELSE 80
        term_h == IF term.has /\ term.height > 0 THEN term.height ELSE 24
        win_w == IF win.width > 0 THEN win.width ELSE 40
        win_h == IF win.height > 0 THEN win.height ELSE 10
        max_x == IF term_w - win_w < 1 THEN 1 ELSE term_w - win_w
        max_y == IF term_h - win_h < 1 THEN 1 ELSE term_h - win_h
    IN [win EXCEPT !.x = IF x2 > max_x THEN max_x ELSE x2,
                   !.y = IF y2 > max_y THEN max_y ELSE y2]

\* the window after this frame's directional edges and the clamp to the screen
MoveWindow(win, term, in, prev) ==
    LET y1 == IF NegEdge(in.axis_left1, prev.axis_left1) THEN win.y - 1 ELSE win.y
        y2 == IF PosEdge(in.axis_left1, prev.axis_left1) THEN y1 + 1 ELSE y1
        x1 == IF NegEdge(in.axis_left0, prev.axis_left0) THEN win.x - 1 ELSE win.x
        x2 == IF PosEdge(in.axis_left0, prev.axis_left0) THEN x1 + 1 ELSE x1
        term_w == IF term.has /\ term.width > 0 THEN term.width ELSE 80
        term_h == IF term.has /\ term.height > 0 THEN term.height ELSE 24
        win_w == IF win.width > 0 THEN win.width ELSE 40
        win_h == IF win.height > 0 THEN win.height ELSE 10
        x3 == IF x2 < 1 THEN 1 ELSE x2
        y3 == IF y2 < 1 THEN 1 ELSE y2
        max_x == IF term_w - win_w < 1 THEN 1 ELSE term_w - win_w
        max_y == IF term_h - win_h < 1 THEN 1 ELSE term_h - win_h
    IN [win EXCEPT !.x = IF x3 > max_x THEN max_x ELSE x3,
                   !.y = IF y3 > max_y THEN max_y ELSE y3]

\* variant of process_window_dragging: move mode survives a change of target
process_window_dragging_NoReset(m, in, prev) ==
    LET target == DragTarget(m.w)
    IN IF target = NoEnt
       THEN [m EXCEPT !.dm = FALSE, !.dt = NoEnt, !.dragging = FALSE]
       ELSE LET moving0 == m.dm
                m0 == [m EXCEPT !.dm = moving0, !.dt = target]
            IN IF RawKeyEdge(in, prev, KEY_M)
               THEN [m0 EXCEPT !.dm = ~moving0,
                               !.w.W_Draggable[target] = [moving |-> ~moving0],
                               !.dragging = ~moving0]
               ELSE IF ~moving0
               THEN [m0 EXCEPT !.dragging = FALSE]
               ELSE IF ButtonEdge(in.button_accept, prev.button_accept)
                       \/ ButtonEdge(in.button_cancel, prev.button_cancel)
               THEN [m0 EXCEPT !.dm = FALSE,
                               !.w.W_Draggable[target] = [moving |-> FALSE],
                               !.dragging = TRUE]
               ELSE [m0 EXCEPT !.w.W_Draggable[target] = [moving |-> TRUE],
                               !.w.W_Window[target] = MoveWindow(@, m.w.term, in, prev),
                               !.dragging = TRUE]

\* returns the machine with field dragging: the "input consumed" result
process_window_dragging(m, in, prev) ==
    LET target == DragTarget(m.w)
    IN IF target = NoEnt
       THEN [m EXCEPT !.dm = FALSE, !.dt = NoEnt, !.dragging = FALSE]
       ELSE LET moving0 == IF m.dt # target THEN FALSE ELSE m.dm
                m0 == [m EXCEPT !.dm = moving0, !.dt = target]
            IN IF RawKeyEdge(in, prev, KEY_M)
               THEN [m0 EXCEPT !.dm = ~moving0,
                               !.w.W_Draggable[target] = [moving |-> ~moving0],
                               !.dragging = ~moving0]
               ELSE IF ~moving0
               THEN [m0 EXCEPT !.dragging = FALSE]
               ELSE IF ButtonEdge(in.button_accept, prev.button_accept)
                       \/ ButtonEdge(in.button_cancel, prev.button_cancel)
               THEN [m0 EXCEPT !.dm = FALSE,
                               !.w.W_Draggable[target] = [moving |-> FALSE],
                               !.dragging = TRUE]
               ELSE [m0 EXCEPT !.w.W_Draggable[target] = [moving |-> TRUE],
                               !.w.W_Window[target] = MoveWindow(@, m.w.term, in, prev),
                               !.dragging = TRUE]

(***************************************************************************)
(* Split pane cross-navigation (Ctrl+Arrow)                                *)
(***************************************************************************)
RECURSIVE DescendantFrom(_, _, _, _)
DescendantFrom(w, current, ancestor, depth) ==
    IF current = NoEnt \/ depth >= MAX_PARENT_DEPTH THEN FALSE
    ELSE IF current = ancestor THEN TRUE
    ELSE DescendantFrom(w, w.parent[current], ancestor, depth + 1)

is_descendant_of(w, entity, ancestor) == DescendantFrom(w, entity, ancestor, 0)

\* the first entity of the sequence es that carries W_NavigationScope, or NoEnt
RECURSIVE FirstScopeIn(_, _, _)
FirstScopeIn(w, es, i) ==
    IF i > Len(es) THEN NoEnt
    ELSE IF Has(w.W_NavigationScope, es[i]) THEN es[i]
    ELSE FirstScopeIn(w, es, i + 1)

RECURSIVE GrandchildScope(_, _, _)
GrandchildScope(w, cs, i) ==
    IF i > Len(cs) THEN NoEnt
    ELSE LET f == FirstScopeIn(w, ecs_children(w, cs[i]), 1)
         IN IF f # NoEnt THEN f ELSE GrandchildScope(w, cs, i + 1)

\* variant of find_nav_scope_under: grandchildren are searched first
find_nav_scope_under_DeepFirst(w, parent) ==
    LET cs == ecs_children(w, parent)
        deep == GrandchildScope(w, cs, 1)
    IN IF deep # NoEnt THEN deep ELSE FirstScopeIn(w, cs, 1)

\* the first W_NavigationScope among the children of parent, else among its
\* grandchildren
find_nav_scope_under(w, parent) ==
    LET cs == ecs_children(w, parent)
        direct == FirstScopeIn(w, cs, 1)
    IN IF direct # NoEnt THEN direct ELSE GrandchildScope(w, cs, 1)

SplitRelevant_AnyArrow(direction, raw_key) ==
    raw_key >= CELS_KEY_CTRL_UP /\ raw_key <= CELS_KEY_CTRL_LEFT

SplitRelevant(direction, raw_key) ==
    IF direction = 0
    THEN raw_key = CELS_KEY_CTRL_LEFT \/ raw_key = CELS_KEY_CTRL_RIGHT
    ELSE raw_key = CELS_KEY_CTRL_UP \/ raw_key = CELS_KEY_CTRL_DOWN

\* the pane (0 or 1) holding the active scope; pane 0 when neither does
CurrentPane(w, active_scope, pane0, pane1) ==
    IF active_scope # NoEnt /\ is_descendant_of(w, active_scope, pane0) THEN 0
    ELSE IF active_scope # NoEnt /\ is_descendant_of(w, active_scope, pane1) THEN 1
    ELSE 0

SplitPane(m, split_entity, in) ==
    LET cs == ecs_children(m.w, split_entity)
    IN IF ~SplitRelevant(m.w.W_SplitPane[split_entity].direction, in.raw_key) \/ Len(cs) < 2
       THEN m
       ELSE LET current_pane == CurrentPane(m.w, m.nav.active_scope, cs[1], cs[2])
                target_pane == IF current_pane = 0 THEN 1 ELSE 0
                target_nav == find_nav_scope_under(m.w, cs[target_pane + 1])
            IN IF target_nav = NoEnt THEN m
               ELSE [m EXCEPT !.nav.active_scope = target_nav,
                              !.w.W_NavigationScope[target_nav].selected_index = 0]

RECURSIVE SplitPanesFrom(_, _, _, _)
SplitPanesFrom(m, q, i, in) ==
    IF i > Len(q) THEN m
    ELSE SplitPanesFrom(SplitPane(m, q[i], in), q, i + 1, in)

process_split_pane_navigation(m, in, prev) ==
    IF \/ ~in.has_raw_key
       \/ in.raw_key < CELS_KEY_CTRL_UP \/ in.raw_key > CELS_KEY_CTRL_LEFT
       \/ (prev.has_raw_key /\ prev.raw_key = in.raw_key)
    THEN m
    ELSE SplitPanesFrom(m, Query(m.w.n, DOMAIN m.w.W_SplitPane), 1, in)

(***************************************************************************)
(* Scrollable container navigation                                         *)
(***************************************************************************)
\* variant of AutoScroll: scrolling down puts the selection one past the window
AutoScroll_PastEnd(scroll_offset, sel, visible) ==
    LET a == IF sel < scroll_offset THEN sel ELSE scroll_offset
    IN IF sel >= a + visible THEN sel - visible ELSE a

AutoScroll(scroll_offset, sel, visible) ==
    LET a == IF sel < scroll_offset THEN sel ELSE scroll_offset
    IN IF sel >= a + visible THEN sel - visible + 1 ELSE a

KeyScroll(scroll_offset, total, visible, in, prev) ==
    LET a == IF ButtonEdge(in.key_page_up, prev.key_page_up) THEN scroll_offset - visible ELSE scroll_offset
        b == IF ButtonEdge(in.key_page_down, prev.key_page_down) THEN a + visible ELSE a
        c == IF ButtonEdge(in.key_home, prev.key_home) THEN 0 ELSE b
    IN IF ButtonEdge(in.key_end, prev.key_end) /\ total > visible THEN total - visible ELSE c

ScrollContainer(m, sc_entity, in, prev) ==
    IF ~Has(m.w.W_Scrollable, sc_entity) \/ m.w.W_Scrollable[sc_entity].visible_count <= 0 THEN m
    ELSE LET scr == m.w.W_Scrollable[sc_entity]
             nav == find_nav_scope_under(m.w, sc_entity)
                off1 == IF nav # NoEnt
                        THEN AutoScroll(scr.scroll_offset,
                                        m.w.W_NavigationScope[nav].selected_index,
                                        scr.visible_count)
                        ELSE scr.scroll_offset
            IN [m EXCEPT !.w.W_Scrollable[sc_entity].scroll_offset =
                    KeyScroll(off1, scr.total_count, scr.visible_count, in, prev)]

RECURSIVE ScrollContainersFrom(_, _, _, _, _)
ScrollContainersFrom(m, q, i, in, prev) ==
    IF i > Len(q) THEN m
    ELSE ScrollContainersFrom(ScrollContainer(m, q[i], in, prev), q, i + 1, in, prev)

process_scrollable_navigation(m, in, prev) ==
    ScrollContainersFrom(m, Query(m.w.n, m.w.W_ScrollContainer), 1, in, prev)

(***************************************************************************)
(* The focus system callback: one frame                                    *)
(***************************************************************************)
FocusableCount(w) == Cardinality(w.W_Focusable)

\* Tab / Shift-Tab move the ring position (not edge-detected)
FocusRing(fs, count, in) ==
    [fs EXCEPT !.focus_count = count,
               !.focus_index =
                   IF count > 0 /\ in.key_tab THEN (@ + 1) % count
                   ELSE IF count > 0 /\ in.key_shift_tab THEN (@ - 1 + count) % count
                   ELSE @]

Machine ==
    [w |-> world, nav |-> W_NavigationState, fs |-> W_FocusState,
     pfw |-> s_prev_focused_window, dt |-> s_drag_target, dm |-> s_drag_moving,
     dragging |-> FALSE, calls |-> <<>>]

\* variant of focus_system_run: the navigation pass runs whatever the drag
\* engine reports
focus_system_run_NavAlways(m, in, prev) ==
    LET m0 == [m EXCEPT !.fs = FocusRing(@, FocusableCount(m.w), in)]
        m1 == process_modal_overlay(m0, in, prev)
        m2 == process_window_overlay(m1, in, prev)
        m3 == process_window_dragging(m2, in, prev)
        m4 == process_navigation_groups(m3, in, prev)
        m5 == process_split_pane_navigation(m4, in, prev)
    IN process_scrollable_navigation(m5, in, prev)

focus_system_run(m, in, prev) ==
    LET m0 == [m EXCEPT !.fs = FocusRing(@, FocusableCount(m.w), in)]
        m1 == process_modal_overlay(m0, in, prev)
        m2 == process_window_overlay(m1, in, prev)
        m3 == process_window_dragging(m2, in, prev)
        m4 == IF ~m3.dragging THEN process_navigation_groups(m3, in, prev) ELSE m3
        m5 == process_split_pane_navigation(m4, in, prev)
    IN process_scrollable_navigation(m5, in, prev)

\* commit a machine value to the state
Commit(m) ==
    /\ world' = m.w
    /\ W_NavigationState' = m.nav
    /\ W_FocusState' = m.fs
    /\ s_prev_focused_window' = m.pfw
    /\ s_drag_target' = m.dt
    /\ s_drag_moving' = m.dm
    /\ calls' = m.calls
    /\ phase' = "frame"
    /\ tick' = 1 - tick

\* one frame of the focus system with input in
FocusFrame(in) ==
    /\ \E m \in {focus_system_run(Machine, in, s_prev_input)} : Commit(m)
    /\ s_prev_input' = in


(***************************************************************************)
(* Text Input Edit Engine: text_input_system_run                           *)
(*                                                                         *)
(* W_TextInputBuffer.buffer is a sequence of TEXT_BUFFER_SIZE bytes; byte  *)
(* offset i of the C array is element i + 1.                               *)
(***************************************************************************)
TEXT_BUFFER_SIZE == 256

ZeroBuffer == [i \in 1..TEXT_BUFFER_SIZE |-> 0]

\* a const CELS_Input* argument: NULL or the address of an input
NULL == [null |-> TRUE, v |-> ZeroInput]

Ptr(v) == [null |-> FALSE, v |-> v]

\* memmove(buffer + dest, buffer + src, count)
MemMove(buffer, dest, src, count) ==
    SubSeq(buffer, 1, dest) \o SubSeq(buffer, src + 1, src + count)
        \o SubSeq(buffer, dest + count + 1, Len(buffer))

\* one-time init of a buffer the composition left zeroed
InitBuffer(buf) ==
    IF buf.initialized THEN buf
    ELSE [initialized |-> TRUE, buffer |-> ZeroBuffer, length |-> 0, byte_length |-> 0,
          cursor_pos |-> 0, sel_start |-> -1, sel_end |-> -1, scroll_x |-> 0]

\* variant of MaxLen: max_length without the cap of 255
MaxLen_NoHardCap(max_length) ==
    IF max_length > 0 THEN max_length ELSE TEXT_HARD_CAP

\* max_len: max_length when positive, else 255; never more than 255
MaxLen(max_length) ==
    LET max_len == IF max_length > 0 THEN max_length ELSE TEXT_HARD_CAP
    IN IF max_len > TEXT_HARD_CAP THEN TEXT_HARD_CAP ELSE max_len

\* the raw key of this frame is printable ASCII
IsPrintable(in) ==
    in.has_raw_key /\ in.raw_key >= KEY_PRINT_MIN /\ in.raw_key <= KEY_PRINT_MAX

\* each editing step maps an edit state t = [buf, modified, fault] to the next

\* variant of InsertChar: the character is written over the byte at the
\* cursor, the tail is not shifted
InsertChar_Overwrite(t, max_len, in) ==
    IF IsPrintable(in) /\ t.buf.length < max_len
    THEN LET buf == t.buf
             byte_pos == buf.cursor_pos
             byte_length == buf.byte_length + 1
             in_bounds == byte_pos >= 0 /\ byte_length < TEXT_BUFFER_SIZE
         IN IF in_bounds
            THEN [t EXCEPT !.buf.buffer = [[buf.buffer EXCEPT ![byte_pos + 1] = in.raw_key]
                                              EXCEPT ![byte_length + 1] = 0],
                           !.buf.cursor_pos = @ + 1,
                           !.buf.length = @ + 1,
                           !.buf.byte_length = byte_length,
                           !.modified = TRUE]
            ELSE [t EXCEPT !.fault = TRUE]
    ELSE t

\* character insertion at the cursor
InsertChar(t, max_len, in) ==
    IF IsPrintable(in) /\ t.buf.length < max_len
    THEN LET buf == t.buf
             byte_pos == buf.cursor_pos
             shifted == IF byte_pos < buf.byte_length
                        THEN MemMove(buf.buffer, byte_pos + 1, byte_pos,
                                     buf.byte_length - byte_pos)
                        ELSE buf.buffer
             byte_length == buf.byte_length + 1
             in_bounds == byte_pos >= 0 /\ byte_length < TEXT_BUFFER_SIZE
         IN IF in_bounds
            THEN [t EXCEPT !.buf.buffer = [[shifted EXCEPT ![byte_pos + 1] = in.raw_key]
                                              EXCEPT ![byte_length + 1] = 0],
                           !.buf.cursor_pos = @ + 1,
                           !.buf.length = @ + 1,
                           !.buf.byte_length = byte_length,
                           !.modified = TRUE]
            ELSE [t EXCEPT !.fault = TRUE]
    ELSE t

\* variant of RemoveByte: the tail is shifted but no terminator is written
RemoveByte_NoTerminator(buf, byte_pos) ==
    LET shifted == IF byte_pos < buf.byte_length - 1
                   THEN MemMove(buf.buffer, byte_pos, byte_pos + 1,
                                buf.byte_length - byte_pos - 1)
                   ELSE buf.buffer
    IN [buf EXCEPT !.buffer = shifted, !.length = @ - 1, !.byte_length = @ - 1]

\* remove the byte at byte_pos: shift the tail left, shorten, re-terminate
RemoveByte(buf, byte_pos) ==
    LET shifted == IF byte_pos < buf.byte_length - 1
                   THEN MemMove(buf.buffer, byte_pos, byte_pos + 1,
                                buf.byte_length - byte_pos - 1)
                   ELSE buf.buffer
    IN [buf EXCEPT !.buffer = [shifted EXCEPT ![buf.byte_length - 1 + 1] = 0],
                   !.length = @ - 1,
                   !.byte_length = @ - 1]

\* backspace: delete the character before the cursor
Backspace(t, in) ==
    IF in.key_backspace /\ t.buf.cursor_pos > 0
    THEN IF t.buf.byte_length >= 1 /\ t.buf.byte_length <= TEXT_BUFFER_SIZE
         THEN [t EXCEPT !.buf = [RemoveByte(t.buf, t.buf.cursor_pos - 1)
                                    EXCEPT !.cursor_pos = @ - 1],
                        !.modified = TRUE]
         ELSE [t EXCEPT !.fault = TRUE]
    ELSE t

\* variant of Delete: the byte is removed but the edit is not flagged
Delete_Unflagged(t, in) ==
    IF in.key_delete /\ t.buf.cursor_pos < t.buf.length
    THEN IF t.buf.byte_length >= 1 /\ t.buf.byte_length <= TEXT_BUFFER_SIZE
         THEN [t EXCEPT !.buf = RemoveByte(t.buf, t.buf.cursor_pos)]
         ELSE [t EXCEPT !.fault = TRUE]
    ELSE t

\* delete: delete the character at the cursor
Delete(t, in) ==
    IF in.key_delete /\ t.buf.cursor_pos < t.buf.length
    THEN IF t.buf.byte_length >= 1 /\ t.buf.byte_length <= TEXT_BUFFER_SIZE
         THEN [t EXCEPT !.buf = RemoveByte(t.buf, t.buf.cursor_pos), !.modified = TRUE]
         ELSE [t EXCEPT !.fault = TRUE]
    ELSE t

\* left / right arrows move the cursor on an edge of the horizontal axis
left_edge(in, prev_input) ==
    in.axis_left0 < -AXIS_THRESHOLD
    /\ (IF prev_input.null THEN TRUE ELSE prev_input.v.axis_left0 >= -AXIS_THRESHOLD)

right_edge(in, prev_input) ==
    in.axis_left0 > AXIS_THRESHOLD
    /\ (IF prev_input.null THEN TRUE ELSE prev_input.v.axis_left0 <= AXIS_THRESHOLD)

Arrows(t, in, prev_input) ==
    LET t1 == IF left_edge(in, prev_input) /\ t.buf.cursor_pos > 0
              THEN [t EXCEPT !.buf.cursor_pos = @ - 1] ELSE t
    IN IF right_edge(in, prev_input) /\ t1.buf.cursor_pos < t1.buf.length
       THEN [t1 EXCEPT !.buf.cursor_pos = @ + 1] ELSE t1

home_edge(in, prev_input) ==
    in.key_home /\ (IF prev_input.null THEN TRUE ELSE ~prev_input.v.key_home)

end_edge(in, prev_input) ==
    in.key_end /\ (IF prev_input.null THEN TRUE ELSE ~prev_input.v.key_end)

\* variant of HomeEnd: End puts the cursor one past the text
HomeEnd_PastEnd(t, in, prev_input) ==
    LET t1 == IF home_edge(in, prev_input) THEN [t EXCEPT !.buf.cursor_pos = 0] ELSE t
    IN IF end_edge(in, prev_input) THEN [t1 EXCEPT !.buf.cursor_pos = t1.buf.length + 1] ELSE t1

\* Home / End jump the cursor to the start / the end of the text
HomeEnd(t, in, prev_input) ==
    LET t1 == IF home_edge(in, prev_input) THEN [t EXCEPT !.buf.cursor_pos = 0] ELSE t
    IN IF end_edge(in, prev_input) THEN [t1 EXCEPT !.buf.cursor_pos = t1.buf.length] ELSE t1

accept_edge(in, prev_input) ==
    in.button_accept /\ (IF prev_input.null THEN TRUE ELSE ~prev_input.v.button_accept)

\* the callbacks of the frame for this entity: on_submit(buffer), then
\* on_change(buffer), each recorded with the content it is handed
TextCallbacks(t, cfg, entity, in, prev_input) ==
    (IF accept_edge(in, prev_input) /\ ~cfg.multiline /\ cfg.on_submit
     THEN << <<"on_submit", entity, t.buf.buffer>> >> ELSE <<>>)
    \o (IF t.modified /\ cfg.on_change
        THEN << <<"on_change", entity, t.buf.buffer>> >> ELSE <<>>)

\* variant of UpdateScroll: the shift to the right stops one column short
UpdateScroll_OffByOne(buf) ==
    LET s1 == IF buf.cursor_pos < buf.scroll_x THEN buf.cursor_pos ELSE buf.scroll_x
        s2 == IF buf.cursor_pos >= s1 + VISIBLE_WIDTH
              THEN buf.cursor_pos - VISIBLE_WIDTH ELSE s1
    IN [buf EXCEPT !.scroll_x = IF s2 < 0 THEN 0 ELSE s2]

\* keep the cursor inside [scroll_x, scroll_x + visible_width)
UpdateScroll(buf) ==
    LET s1 == IF buf.cursor_pos < buf.scroll_x THEN buf.cursor_pos ELSE buf.scroll_x
        s2 == IF buf.cursor_pos >= s1 + VISIBLE_WIDTH
              THEN buf.cursor_pos - VISIBLE_WIDTH + 1 ELSE s1
    IN [buf EXCEPT !.scroll_x = IF s2 < 0 THEN 0 ELSE s2]

\* variant of TextActive: the gate tests the selected flag only
TextActive_SelectedOnly(w, entity) ==
    IF Has(w.W_Selectable, entity) THEN w.W_Selectable[entity].selected ELSE FALSE

\* the entity passes the gate: selected and focused
TextActive(w, entity) ==
    /\ (IF Has(w.W_Selectable, entity) THEN w.W_Selectable[entity].selected ELSE FALSE)
    /\ (IF Has(w.W_InteractState, entity) THEN w.W_InteractState[entity].focused ELSE FALSE)

\* the body of the loop for one entity with W_TextInput and W_TextInputBuffer
TextInputEntity(m, entity, in, prev_input) ==
    LET cfg == m.w.W_TextInput[entity]
        buf == InitBuffer(m.w.W_TextInputBuffer[entity])
        m1 == [m EXCEPT !.w.W_TextInputBuffer[entity] = buf]
    IN IF ~TextActive(m.w, entity) THEN m1
       ELSE LET max_len == MaxLen(cfg.max_length)
                t0 == [buf |-> buf, modified |-> FALSE, fault |-> FALSE]
                t1 == InsertChar(t0, max_len, in)
                t2 == Backspace(t1, in)
                t3 == Delete(t2, in)
                t4 == Arrows(t3, in, prev_input)
                t5 == HomeEnd(t4, in, prev_input)
            IN [m1 EXCEPT !.w.W_TextInputBuffer[entity] = UpdateScroll(t5.buf),
                          !.calls = @ \o TextCallbacks(t5, cfg, entity, in, prev_input)
                                      \o (IF t5.fault THEN << <<"out_of_bounds", entity>> >>
                                          ELSE <<>>)]

RECURSIVE TextInputsFrom(_, _, _, _, _)
TextInputsFrom(m, q, i, in, prev_input) ==
    IF i > Len(q) THEN m
    ELSE TextInputsFrom(TextInputEntity(m, q[i], in, prev_input), q, i + 1, in, prev_input)

text_input_system_run(m, in, prev_input) ==
    LET q == Query(m.w.n, DOMAIN m.w.W_TextInput \cap DOMAIN m.w.W_TextInputBuffer)
    IN TextInputsFrom([m EXCEPT !.calls = <<>>], q, 1, in, prev_input)

\* some text input is selected and focused
text_input_is_active(w) ==
    \E e \in DOMAIN w.W_TextInputBuffer : TextActive(w, e)

\* one call of the text engine with input in and previous input prev_input
TextInputFrame(in, prev_input) ==
    /\ \E m \in {text_input_system_run(Machine, in, prev_input)} :
          /\ world' = m.w
          /\ calls' = m.calls
    /\ phase' = "text"
    /\ tick' = 1 - tick
    /\ UNCHANGED <<W_NavigationState, W_FocusState, s_prev_focused_window,
                   s_drag_target, s_drag_moving>>

(***************************************************************************)
(* Behavioral systems: range clamp and scroll clamp                        *)
(*                                                                         *)
(* An int is a 32-bit two's complement integer.  A float is a record       *)
(* [nan, v]: NaN, or the number v; a comparison with NaN is false.         *)
(***************************************************************************)
INT_MAX == 2147483647

INT_MIN == -INT_MAX - 1

\* a - b on ints, wrapped to 32 bits when the difference leaves the int range
SubInt(a, b) ==
    IF b >= 0
    THEN IF a >= INT_MIN + b THEN a - b
         ELSE (a - INT_MIN) + (INT_MAX - b) + 1
    ELSE IF a <= INT_MAX + b THEN a - b
         ELSE (a - INT_MAX) + (INT_MIN - b) - 1

NaN == [nan |-> TRUE, v |-> 0]

Float(v) == [nan |-> FALSE, v |-> v]

\* a < b on floats
FloatLess(a, b) == ~a.nan /\ ~b.nan /\ a.v < b.v

\* variant of ClampF: the test against max is left out
ClampF_LowerOnly(r) ==
    [r EXCEPT !.value = IF FloatLess(r.value, r.min) THEN r.min ELSE r.value]

\* the loop body of range_clamp_f_run
ClampF(r) ==
    LET v1 == IF FloatLess(r.value, r.min) THEN r.min ELSE r.value
    IN [r EXCEPT !.value = IF FloatLess(r.max, v1) THEN r.max ELSE v1]

range_clamp_f_run(w) ==
    [w EXCEPT !.W_RangeValueF = [e \in DOMAIN @ |-> ClampF(@[e])]]

\* variant of ClampI: a value above max is stepped down by one
ClampI_StepDown(r) ==
    LET v1 == IF r.value < r.min THEN r.min ELSE r.value
    IN [r EXCEPT !.value = IF v1 > r.max THEN v1 - 1 ELSE v1]

\* the loop body of range_clamp_i_run
ClampI(r) ==
    LET v1 == IF r.value < r.min THEN r.min ELSE r.value
    IN [r EXCEPT !.value = IF v1 > r.max THEN r.max ELSE v1]

range_clamp_i_run(w) ==
    [w EXCEPT !.W_RangeValueI = [e \in DOMAIN @ |-> ClampI(@[e])]]

\* max_offset: total_count - visible_count, not below 0.  The subtraction
\* overflows for operands of opposite sign near the ends of the int range,
\* which is undefined; the build either wraps the difference and tests it, or
\* (folded) replaces the test "difference < 0" by "total_count <
\* visible_count" and keeps the wrapped difference.
MaxOffset(total_count, visible_count, folded) ==
    LET diff == SubInt(total_count, visible_count)
        negative == IF folded THEN total_count < visible_count ELSE diff < 0
    IN IF negative THEN 0 ELSE diff

\* variant of ClampScroll: only the upper bound is enforced
ClampScroll_UpperOnly(scr, folded) ==
    LET max_offset == MaxOffset(scr.total_count, scr.visible_count, folded)
    IN [scr EXCEPT !.scroll_offset = IF @ > max_offset THEN max_offset ELSE @]

\* the loop body of scroll_clamp_run
ClampScroll(scr, folded) ==
    LET max_offset == MaxOffset(scr.total_count, scr.visible_count, folded)
        o1 == IF scr.scroll_offset < 0 THEN 0 ELSE scr.scroll_offset
    IN [scr EXCEPT !.scroll_offset = IF o1 > max_offset THEN max_offset ELSE o1]

scroll_clamp_run(w, folded) ==
    [w EXCEPT !.W_Scrollable = [e \in DOMAIN @ |-> ClampScroll(@[e], folded)]]

\* one run of a behavioral system, named by the phase it leaves
SystemStep(w, system) ==
    /\ world' = w
    /\ phase' = system
    /\ tick' = 1 - tick
    /\ calls' = <<>>
    /\ UNCHANGED <<W_NavigationState, W_FocusState, s_prev_input, s_prev_focused_window,
                   s_drag_target, s_drag_moving>>

(***************************************************************************)
(* Scenes: entity trees as the widget compositions build them              *)
(***************************************************************************)
InteractState0 == [focused |-> FALSE, selected |-> FALSE, disabled |-> FALSE]

\* WButton: W_Button + W_Selectable + W_InteractState
AddButton(w, e, p) ==
    [w EXCEPT !.parent[e] = p,
              !.W_Button = Set(@, e, [on_press |-> TRUE]),
              !.W_Selectable = Set(@, e, [selected |-> FALSE]),
              !.W_InteractState = Set(@, e, InteractState0)]

\* WCollapsible: W_Collapsible + W_Selectable + W_InteractState + W_Focusable
AddCollapsible(w, e, p) ==
    [w EXCEPT !.parent[e] = p,
              !.W_Collapsible = Set(@, e, [collapsed |-> FALSE]),
              !.W_Selectable = Set(@, e, [selected |-> FALSE]),
              !.W_InteractState = Set(@, e, InteractState0),
              !.W_Focusable = @ \cup {e}]

\* WText: nothing the engine reads
AddLabel(w, e, p) == [w EXCEPT !.parent[e] = p]

\* a bare W_Selectable (no W_InteractState, no payload)
AddBare(w, e, p) ==
    [w EXCEPT !.parent[e] = p, !.W_Selectable = Set(@, e, [selected |-> FALSE])]

\* WNavigationGroup: W_NavigationScope + W_Focusable
AddNavigationGroup(w, e, p, wrap, direction) ==
    [w EXCEPT !.parent[e] = p,
              !.W_NavigationScope = Set(@, e,
                  [wrap |-> wrap, direction |-> direction,
                   selected_index |-> 0, child_count |-> 0]),
              !.W_Focusable = @ \cup {e}]

\* WModal: W_Modal + W_OverlayState(200) + W_NavigationScope(wrap, vertical) + W_Focusable
AddModal(w, e, p, visible) ==
    [w EXCEPT !.parent[e] = p,
              !.W_Modal = Set(@, e, [visible |-> visible, on_dismiss |-> TRUE]),
              !.W_OverlayState = Set(@, e,
                  [visible |-> visible, z_index |-> MODAL_Z_DEFAULT, modal |-> TRUE]),
              !.W_NavigationScope = Set(@, e,
                  [wrap |-> TRUE, direction |-> 0, selected_index |-> 0, child_count |-> 0]),
              !.W_Focusable = @ \cup {e}]

\* the kind of the i-th child of a menu: button, label, collapsible, bare, button, ...
AddMenuChild(w, e, p, i) ==
    CASE i % 4 = 1 -> AddButton(w, e, p)
      [] i % 4 = 2 -> AddLabel(w, e, p)
      [] i % 4 = 3 -> AddCollapsible(w, e, p)
      [] OTHER -> AddBare(w, e, p)

RECURSIVE AddMenuChildren(_, _, _, _)
AddMenuChildren(w, p, i, k) ==
    IF i > k THEN w ELSE AddMenuChildren(AddMenuChild(w, p + i, p, i), p, i + 1, k)

\* a navigation group (entity 1) with k children of mixed kinds
MenuScene(wrap, direction, k) ==
    AddMenuChildren(AddNavigationGroup(EmptyWorld(1 + k), 1, NoEnt, wrap, direction),
                    1, 1, k)

\* buttons p+i .. p+k, children of p
AddButtons(w, p, i, k) ==
    LET es == (p + i)..(p + k)
    IN [w EXCEPT !.parent = [e \in 1..w.n |-> IF e \in es THEN p ELSE @[e]],
                 !.W_Button = [e \in es |-> [on_press |-> TRUE]] @@ @,
                 !.W_Selectable = [e \in es |-> [selected |-> FALSE]] @@ @,
                 !.W_InteractState = [e \in es |-> InteractState0] @@ @]

\* a navigation group (entity 1) with k button children
ButtonScene(wrap, direction, k) ==
    AddButtons(AddNavigationGroup(EmptyWorld(1 + k), 1, NoEnt, wrap, direction),
               1, 1, k)

\* WTextInput: W_TextInput + zeroed W_TextInputBuffer + W_Selectable +
\* W_InteractState + W_Focusable
AddTextInput(w, e, p, max_length, multiline, selected) ==
    [w EXCEPT !.parent[e] = p,
              !.W_TextInput = Set(@, e, [max_length |-> max_length, multiline |-> multiline,
                                         on_change |-> TRUE, on_submit |-> TRUE]),
              !.W_TextInputBuffer = Set(@, e,
                  [initialized |-> FALSE, buffer |-> ZeroBuffer, length |-> 0,
                   byte_length |-> 0, cursor_pos |-> 0, sel_start |-> 0, sel_end |-> 0,
                   scroll_x |-> 0]),
              !.W_Selectable = Set(@, e, [selected |-> selected]),
              !.W_InteractState = Set(@, e, [InteractState0 EXCEPT !.selected = selected]),
              !.W_Focusable = @ \cup {e}]

\* a text input (entity 1) on its own
TextScene(max_length, multiline, selected) ==
    AddTextInput(EmptyWorld(1), 1, NoEnt, max_length, multiline, selected)

\* the i-th key of the typing scenario: the printable keys in turn
KeyAt(i) == KEY_PRINT_MIN + ((i - 1) % (KEY_PRINT_MAX - KEY_PRINT_MIN + 1))

\* the buffer after k frames that each typed KeyAt(1), KeyAt(2), ... at the end
TypedBuffer(k) ==
    [initialized |-> TRUE,
     buffer |-> [i \in 1..TEXT_BUFFER_SIZE |-> IF i <= k THEN KeyAt(i) ELSE 0],
     length |-> k, byte_length |-> k, cursor_pos |-> k, sel_start |-> -1, sel_end |-> -1,
     scroll_x |-> IF k >= VISIBLE_WIDTH THEN k - VISIBLE_WIDTH + 1 ELSE 0]

\* an active text input (entity 1) into which k keys have been typed
TypedScene(max_length, k) ==
    LET w == TextScene(max_length, FALSE, TRUE)
    IN [w EXCEPT !.W_TextInputBuffer[1] = TypedBuffer(k),
                 !.W_InteractState[1].focused = TRUE]

\* a visible modal (entity 1) with two buttons, over a horizontal group (entity 4) with one
ModalScene ==
    AddButtons(
        AddNavigationGroup(
            AddButtons(AddModal(EmptyWorld(5), 1, NoEnt, TRUE), 1, 1, 2),
            4, NoEnt, FALSE, 1),
        4, 1, 1)

\* WWindow: W_Window + W_OverlayState(150 + z_order) + W_NavigationScope(wrap,
\* vertical) + W_Focusable, and W_Draggable when the draggable prop is set
AddWindow(w, e, p, visible, z_order, draggable) ==
    LET w1 == [w EXCEPT !.parent[e] = p,
                  !.W_Window = Set(@, e,
                      [visible |-> visible, x |-> 0, y |-> 0, width |-> 40, height |-> 0,
                       z_order |-> z_order, on_close |-> TRUE]),
                  !.W_OverlayState = Set(@, e,
                      [visible |-> visible, z_index |-> WINDOW_Z_BASE + z_order,
                       modal |-> TRUE]),
                  !.W_NavigationScope = Set(@, e,
                      [wrap |-> TRUE, direction |-> 0, selected_index |-> 0,
                       child_count |-> 0]),
                  !.W_Focusable = @ \cup {e}]
    IN IF draggable THEN [w1 EXCEPT !.W_Draggable = Set(@, e, [moving |-> FALSE])] ELSE w1

\* a modal (entity 1) and three visible windows (entities 2, 3, 4) with z_order
\* z[1], z[2], z[3]; window 2 holds a button (5), window 3 a navigation group (6)
\* with a button (7), window 4 is empty
OverlayScene(z, modal_visible) ==
    LET w1 == AddModal(EmptyWorld(7), 1, NoEnt, modal_visible)
        w2 == AddWindow(w1, 2, NoEnt, TRUE, z[1], FALSE)
        w3 == AddWindow(w2, 3, NoEnt, TRUE, z[2], FALSE)
        w4 == AddWindow(w3, 4, NoEnt, TRUE, z[3], FALSE)
        w5 == AddButton(w4, 5, 2)
        w6 == AddNavigationGroup(w5, 6, 3, TRUE, 0)
    IN AddButton(w6, 7, 6)

\* a modal entity assembled by hand: W_Modal, and W_OverlayState only when
\* overlay[1] is set, with z_index overlay[2]
AddModalEntity(w, e, visible, on_dismiss, overlay) ==
    LET w1 == [w EXCEPT !.W_Modal = Set(@, e, [visible |-> visible, on_dismiss |-> on_dismiss])]
    IN IF overlay[1]
       THEN [w1 EXCEPT !.W_OverlayState = Set(@, e,
                [visible |-> visible, z_index |-> overlay[2], modal |-> TRUE])]
       ELSE w1

\* two hand-assembled modals (entities 1, 2), a composed modal (entity 3) and
\* two windows (entities 4, 5) with z_order z[1], z[2]
DismissScene(overlay1, overlay2, on_dismiss, z) ==
    LET w1 == AddModalEntity(EmptyWorld(5), 1, TRUE, on_dismiss, overlay1)
        w2 == AddModalEntity(w1, 2, TRUE, TRUE, overlay2)
        w3 == AddModal(w2, 3, NoEnt, FALSE)
        w4 == AddWindow(w3, 4, NoEnt, TRUE, z[1], FALSE)
    IN AddWindow(w4, 5, NoEnt, TRUE, z[2], FALSE)

\* WSplitPane: W_SplitPane
AddSplitPane(w, e, p, direction) ==
    [w EXCEPT !.parent[e] = p, !.W_SplitPane = Set(@, e, [direction |-> direction])]

\* a navigation group under parent p, or a plain label under the pane when
\* p is NoEnt
AddGroupOrLabel(w, e, p, pane) ==
    IF p = NoEnt THEN AddLabel(w, e, pane) ELSE AddNavigationGroup(w, e, p, TRUE, 0)

\* a split pane (entity 1) with panes 2 and 3.  Pane 2 holds group 4 with the
\* buttons 9 and 10.  Pane 3 holds a container (5) that holds a container (6);
\* entity 7, with the buttons 11 and 12, and entity 8 are navigation groups
\* under parent7 and parent8 (pane, container or inner container) or plain
\* labels.
SplitScene(direction, parent7, parent8) ==
    LET w1 == AddSplitPane(EmptyWorld(12), 1, NoEnt, direction)
        w2 == AddLabel(AddLabel(w1, 2, 1), 3, 1)
        w3 == AddNavigationGroup(w2, 4, 2, TRUE, 0)
        w4 == AddLabel(AddLabel(w3, 5, 3), 6, 5)
        w5 == AddGroupOrLabel(w4, 7, parent7, 3)
        w6 == AddGroupOrLabel(w5, 8, parent8, 3)
        w7 == AddButtons(w6, 4, 5, 6)
    IN AddButtons(w7, 7, 4, 5)

\* two split panes, 1 (horizontal) with the panes 2 and 3 and 4 with the panes
\* 5 and 6; split pane 4 is a root or a child of pane 3, and entity 6 is its
\* second child or a root (split pane 4 then has one child).  Each of the
\* four entities holds a navigation group (7, 8, 9, 10) with two buttons.
PanesScene(direction4, parent4, parent6) ==
    LET w1 == AddSplitPane(EmptyWorld(18), 1, NoEnt, 0)
        w2 == AddLabel(AddLabel(w1, 2, 1), 3, 1)
        w3 == AddSplitPane(w2, 4, parent4, direction4)
        w4 == AddLabel(AddLabel(w3, 5, 4), 6, parent6)
        w5 == AddNavigationGroup(AddNavigationGroup(w4, 7, 2, TRUE, 0), 8, 3, TRUE, 0)
        w6 == AddNavigationGroup(AddNavigationGroup(w5, 9, 5, TRUE, 0), 10, 6, TRUE, 0)
        w7 == AddButtons(AddButtons(w6, 7, 4, 5), 8, 5, 6)
    IN AddButtons(AddButtons(w7, 9, 6, 7), 10, 7, 8)

\* collapsibles p+i .. p+k, children of p
AddCollapsibles(w, p, i, k) ==
    LET es == (p + i)..(p + k)
    IN [w EXCEPT !.parent = [e \in 1..w.n |-> IF e \in es THEN p ELSE @[e]],
                 !.W_Collapsible = [e \in es |-> [collapsed |-> FALSE]] @@ @,
                 !.W_Selectable = [e \in es |-> [selected |-> FALSE]] @@ @,
                 !.W_InteractState = [e \in es |-> InteractState0] @@ @,
                 !.W_Focusable = @ \cup es]

\* a navigation group (entity 1) with k collapsibles: 1 + k focusable entities
RingScene(k) ==
    AddCollapsibles(AddNavigationGroup(EmptyWorld(1 + k), 1, NoEnt, TRUE, 0), 1, 1, k)

\* the terminal as cels_window_get reports it: unknown, or width x height
NoTerm == [has |-> FALSE, width |-> 0, height |-> 0]

Term(width, height) == [has |-> TRUE, width |-> width, height |-> height]

\* a visible draggable window (entity 1) at pos = <<x, y>> of size = <<width,
\* height>> on terminal term, holding a button (2) and a collapsible (3)
DragScene(pos, size, term) ==
    LET w1 == AddWindow(EmptyWorld(3), 1, NoEnt, TRUE, 0, TRUE)
        w2 == AddCollapsible(AddButton(w1, 2, 1), 3, 1)
    IN [w2 EXCEPT !.W_Window[1].x = pos[1], !.W_Window[1].y = pos[2],
                  !.W_Window[1].width = size[1], !.W_Window[1].height = size[2],
                  !.term = term]

\* two draggable windows (1 and 2) with a button each (4 and 5) and a modal (3)
DeskScene(z, visible2, modal_visible) ==
    LET w1 == AddWindow(EmptyWorld(5), 1, NoEnt, TRUE, z[1], TRUE)
        w2 == AddWindow(w1, 2, NoEnt, visible2, z[2], TRUE)
        w3 == AddModal(w2, 3, NoEnt, modal_visible)
    IN AddButton(AddButton(w3, 4, 1), 5, 2)

\* a navigation group (entity 1) holding a selected text input (2) and a
\* button (3)
TypingScene(wrap, direction, max_length) ==
    LET w1 == AddNavigationGroup(EmptyWorld(3), 1, NoEnt, wrap, direction)
    IN AddButton(AddTextInput(w1, 2, 1, max_length, FALSE, TRUE), 3, 1)

\* an entity (1) that carries a W_RangeValueI
RangeIScene(value, min, max) ==
    [EmptyWorld(1) EXCEPT !.W_RangeValueI =
        Set(@, 1, [value |-> value, min |-> min, max |-> max, step |-> 1])]

\* an entity (1) that carries a W_RangeValueF
RangeFScene(value, min, max) ==
    [EmptyWorld(1) EXCEPT !.W_RangeValueF =
        Set(@, 1, [value |-> value, min |-> min, max |-> max, step |-> Float(0)])]

\* an entity (1) that carries a W_Scrollable
ScrollScene(scroll_offset, total_count, visible_count) ==
    [EmptyWorld(1) EXCEPT !.W_Scrollable =
        Set(@, 1, [scroll_offset |-> scroll_offset, total_count |-> total_count,
                   visible_count |-> visible_count])]

\* WScrollContainer: W_ScrollContainer + W_Scrollable, visible_count = height
AddScrollContainer(w, e, p, height, total_count, scroll_offset) ==
    [w EXCEPT !.parent[e] = p,
              !.W_ScrollContainer = @ \cup {e},
              !.W_Scrollable = Set(@, e,
                  [scroll_offset |-> scroll_offset, total_count |-> total_count,
                   visible_count |-> height])]

\* a scroll container (entity 1) holding a label (2); navigation group 3, a
\* child of the container or of the label, has the buttons 4 to 7
ListScene(parent3, height, total_count, scroll_offset) ==
    LET w1 == AddScrollContainer(EmptyWorld(7), 1, NoEnt, height, total_count, scroll_offset)
        w2 == AddLabel(w1, 2, 1)
        w3 == AddNavigationGroup(w2, 3, parent3, TRUE, 0)
    IN AddButtons(w3, 3, 1, 4)

(***************************************************************************)
(* Environment: the application and the composition layer between frames   *)
(***************************************************************************)
\* a step of the environment leaves the engine's statics alone
EnvStep ==
    /\ calls' = <<>>
    /\ phase' = "env"
    /\ UNCHANGED <<W_NavigationState, W_FocusState, s_prev_input, s_prev_focused_window,
                   s_drag_target, s_drag_moving, tick, drv>>

\* something outside the engine overwrites a scope's selected_index
ExternalSetIndex(e, v) ==
    /\ Has(world.W_NavigationScope, e)
    /\ world.W_NavigationScope[e].selected_index # v
    /\ world' = [world EXCEPT !.W_NavigationScope[e].selected_index = v]
    /\ EnvStep

\* the composition layer rewrites W_Selectable.selected of every child of scope e
ExternalSetSelected(e, v) ==
    LET cs == {c \in DOMAIN world.W_Selectable : world.parent[c] = e}
    IN /\ Has(world.W_NavigationScope, e)
       /\ {c \in cs : world.W_Selectable[c].selected # v} # {}
       /\ world' = [world EXCEPT !.W_Selectable = [c \in DOMAIN @ |->
                       IF c \in cs THEN [selected |-> v] ELSE @[c]]]
       /\ EnvStep

\* the components of the store without entity e
Without(comp, e) == [c \in DOMAIN comp \ {e} |-> comp[c]]

\* the last entity of the store is a child of some entity and is destroyed
DespawnLast ==
    /\ world.n > 1
    /\ world.parent[world.n] # NoEnt
    /\ world' = [f \in DOMAIN world |->
                    IF f = "n" THEN world.n - 1
                    ELSE IF f = "term" THEN world.term
                    ELSE IF f \in {"W_Focusable", "W_ScrollContainer"} THEN world[f] \ {world.n}
                    ELSE Without(world[f], world.n)]
    /\ EnvStep

\* the application shows or hides a modal (its on_dismiss handler hides it)
SetModalVisible(e, v) ==
    /\ Has(world.W_Modal, e)
    /\ world.W_Modal[e].visible # v
    /\ world' = [world EXCEPT !.W_Modal[e].visible = v, !.W_OverlayState[e].visible = v]
    /\ EnvStep

\* the composition layer and the focus owner set the flags of the gate
SetTextFlags(e, selected, focused) ==
    /\ Has(world.W_TextInputBuffer, e)
    /\ <<world.W_Selectable[e].selected, world.W_InteractState[e].focused>>
          # <<selected, focused>>
    /\ world' = [world EXCEPT !.W_Selectable[e].selected = selected,
                              !.W_InteractState[e].selected = selected,
                              !.W_InteractState[e].focused = focused]
    /\ EnvStep

\* the application shows or hides a modal that may lack W_OverlayState
SetModalEntityVisible(e, v) ==
    /\ Has(world.W_Modal, e)
    /\ world.W_Modal[e].visible # v
    /\ world' = [world EXCEPT
          !.W_Modal[e].visible = v,
          !.W_OverlayState = [o \in DOMAIN @ |-> IF o = e THEN [@[o] EXCEPT !.visible = v]
                                                 ELSE @[o]]]
    /\ EnvStep

\* the application shows or hides a window
SetWindowVisible(e, v) ==
    /\ Has(world.W_Window, e)
    /\ world.W_Window[e].visible # v
    /\ world' = [world EXCEPT !.W_Window[e].visible = v, !.W_OverlayState[e].visible = v]
    /\ EnvStep

\* the focus owner moves the keyboard focus: W_FocusState.focused_entity is
\* written outside the engine
SetFocus(e) ==
    /\ W_FocusState.focused_entity # e
    /\ W_FocusState' = [W_FocusState EXCEPT !.focused_entity = e]
    /\ calls' = <<>>
    /\ phase' = "env"
    /\ UNCHANGED <<world, W_NavigationState, s_prev_input, s_prev_focused_window,
                   s_drag_target, s_drag_moving, tick, drv>>

\* the application calls widgets_nav_scope_push(e)
ScopePush(e) ==
    /\ W_NavigationState' = widgets_nav_scope_push(W_NavigationState, e)
    /\ calls' = <<>>
    /\ phase' = "env"
    /\ UNCHANGED <<world, W_FocusState, s_prev_input, s_prev_focused_window,
                   s_drag_target, s_drag_moving, tick, drv>>

\* the application calls widgets_nav_scope_pop()
ScopePop ==
    /\ W_NavigationState' = widgets_nav_scope_pop(W_NavigationState)
    /\ W_NavigationState' # W_NavigationState
    /\ calls' = <<>>
    /\ phase' = "env"
    /\ UNCHANGED <<world, W_FocusState, s_prev_input, s_prev_focused_window,
                   s_drag_target, s_drag_moving, tick, drv>>

(***************************************************************************)
(* Specification of the navigation frames                                  *)
(***************************************************************************)
AxisValues == {-10, -AXIS_THRESHOLD, 0, AXIS_THRESHOLD, 10}

\* one axis deflected at a time, the accept button, the Escape key
NavInputs ==
    {[ZeroInput EXCEPT !.axis_left0 = x] : x \in AxisValues}
    \cup {[ZeroInput EXCEPT !.axis_left1 = y] : y \in AxisValues}
    \cup {[ZeroInput EXCEPT !.button_accept = TRUE, !.axis_left1 = y] : y \in {0, 10}}
    \cup {[ZeroInput EXCEPT !.button_accept = TRUE, !.axis_left0 = -10]}
    \cup {[ZeroInput EXCEPT !.has_raw_key = TRUE, !.raw_key = KEY_ESCAPE]}

NoDriver == [scenario |-> "none"]

InitStatics ==
    /\ W_FocusState = [focused_entity |-> NoEnt, focus_count |-> 0, focus_index |-> 0]
    /\ s_prev_input = ZeroInput
    /\ s_prev_focused_window = NoEnt
    /\ s_drag_target = NoEnt
    /\ s_drag_moving = FALSE
    /\ calls = <<>>
    /\ phase = "init"
    /\ tick = 0

Init ==
    /\ \/ /\ \E wrap \in BOOLEAN, direction \in {0, 1}, k \in 0..MaxChildren :
               world = MenuScene(wrap, direction, k)
          /\ W_NavigationState = [active_scope |-> NoEnt, scope_depth |-> 0]
       \/ /\ world = ModalScene
          /\ W_NavigationState = [active_scope |-> 1, scope_depth |-> 1]
    /\ InitStatics
    /\ drv = NoDriver

NavFrame == \E in \in NavInputs : FocusFrame(in) /\ UNCHANGED drv

NavExternalIndex ==
    \E e \in DOMAIN world.W_NavigationScope, v \in {-1, MaxChildren + 1} : ExternalSetIndex(e, v)

NavExternalSelected == \E e \in DOMAIN world.W_NavigationScope, v \in BOOLEAN : ExternalSetSelected(e, v)

NavModalVisible == \E e \in DOMAIN world.W_Modal, v \in BOOLEAN : SetModalVisible(e, v)

Next ==
    \/ NavFrame
    \/ NavExternalIndex
    \/ NavExternalSelected
    \/ DespawnLast
    \/ NavModalVisible

Spec == Init /\ [][Next]_vars

(***************************************************************************)
(* Specification of long scopes: MAX_NAV_CHILDREN children and one more    *)
(***************************************************************************)
CapInputs ==
    {ZeroInput,
     [ZeroInput EXCEPT !.axis_left1 = 10],
     [ZeroInput EXCEPT !.axis_left1 = -10],
     [ZeroInput EXCEPT !.button_accept = TRUE]}

InitCap ==
    /\ \/ \E k \in {MAX_NAV_CHILDREN, MAX_NAV_CHILDREN + 1} :
             world = ButtonScene(TRUE, 0, k)
       \/ \E wrap \in BOOLEAN, k \in 0..MaxChildren :
             world = MenuScene(wrap, 0, k)
    /\ W_NavigationState = [active_scope |-> NoEnt, scope_depth |-> 0]
    /\ InitStatics
    /\ drv = NoDriver

CapFrame == \E in \in CapInputs : FocusFrame(in) /\ UNCHANGED drv

CapExternalSelected ==
    \E e \in DOMAIN world.W_NavigationScope, v \in BOOLEAN : ExternalSetSelected(e, v)

NextCap ==
    \/ CapFrame
    \/ CapExternalSelected

SpecCap == InitCap /\ [][NextCap]_vars

(***************************************************************************)
(* Specification of the cycling scenario: separate presses of one          *)
(* direction on a wrapping scope                                           *)
(***************************************************************************)
MaxRing == 5
MaxPresses == 6

\* the input with the axis of a scope of this direction deflected by v
AxisInput(direction, v) ==
    IF direction = 0 THEN [ZeroInput EXCEPT !.axis_left1 = v]
                     ELSE [ZeroInput EXCEPT !.axis_left0 = v]

InitCycle ==
    /\ \E direction \in {0, 1}, n \in 1..MaxRing, step \in {-1, 1} :
          /\ world = ButtonScene(TRUE, direction, n)
          /\ drv = [scenario |-> "cycle", direction |-> direction, step |-> step,
                    start |-> 0, presses |-> 0, down |-> FALSE]
    /\ W_NavigationState = [active_scope |-> NoEnt, scope_depth |-> 0]
    /\ InitStatics

\* the key goes down: a frame with the axis fully deflected
CyclePress ==
    /\ ~drv.down
    /\ drv.presses < MaxPresses
    /\ FocusFrame(AxisInput(drv.direction, drv.step * 10))
    /\ drv' = [drv EXCEPT !.presses = @ + 1, !.down = TRUE]

\* the key stays down for one more frame
CycleHold ==
    /\ drv.down
    /\ FocusFrame(s_prev_input)
    /\ UNCHANGED drv

\* the key goes up: a frame with the axis at rest
CycleRelease ==
    /\ drv.down
    /\ FocusFrame(ZeroInput)
    /\ drv' = [drv EXCEPT !.down = FALSE]

\* the observer starts counting anew from the index the scope stands on
CycleRestart ==
    /\ ~drv.down
    /\ drv.presses > 0
    /\ drv' = [drv EXCEPT !.presses = 0,
                          !.start = world.W_NavigationScope[1].selected_index]
    /\ UNCHANGED <<world, W_NavigationState, W_FocusState, s_prev_input,
                   s_prev_focused_window, s_drag_target, s_drag_moving, calls, phase, tick>>

NextCycle ==
    \/ CyclePress
    \/ CycleHold
    \/ CycleRelease
    \/ CycleRestart

SpecCycle == InitCycle /\ [][NextCycle]_vars

(***************************************************************************)
(* Specification of the text frames: any input, a short and a nearly full  *)
(* buffer                                                                  *)
(***************************************************************************)
MaxTextFrames == 4
SmallMaxLength == 2
NearFull == 254

KeyInput(k) == [ZeroInput EXCEPT !.has_raw_key = TRUE, !.raw_key = k]

\* single keys, the accept button alone and together with the Space key, and
\* frames that combine a printable key with editing and cursor keys
TextInputs ==
    {ZeroInput, KeyInput(97),
     [KeyInput(32) EXCEPT !.button_accept = TRUE],
     [ZeroInput EXCEPT !.button_accept = TRUE],
     [ZeroInput EXCEPT !.key_backspace = TRUE],
     [ZeroInput EXCEPT !.key_delete = TRUE],
     [ZeroInput EXCEPT !.axis_left0 = -10],
     [ZeroInput EXCEPT !.axis_left0 = 10],
     [ZeroInput EXCEPT !.key_home = TRUE],
     [ZeroInput EXCEPT !.key_end = TRUE],
     [KeyInput(98) EXCEPT !.key_backspace = TRUE, !.key_delete = TRUE,
                          !.axis_left0 = -10, !.key_home = TRUE],
     [KeyInput(98) EXCEPT !.key_delete = TRUE, !.axis_left0 = 10, !.key_end = TRUE]}

InitText ==
    /\ \/ \E selected \in BOOLEAN : world = TextScene(SmallMaxLength, FALSE, selected)
       \/ \E max_length \in {0, TEXT_HARD_CAP + 45} : world = TypedScene(max_length, NearFull)
    /\ W_NavigationState = [active_scope |-> NoEnt, scope_depth |-> 0]
    /\ InitStatics
    /\ drv = [scenario |-> "text", frames |-> 0]

\* the caller passes the input of the previous frame, or no previous input,
\* and keeps this frame's input for the next call
TextFrame ==
    /\ drv.frames < MaxTextFrames
    /\ \E in \in TextInputs, prev_input \in {NULL, Ptr(s_prev_input)} :
          /\ TextInputFrame(in, prev_input)
          /\ s_prev_input' = in
    /\ drv' = [drv EXCEPT !.frames = @ + 1]

TextFlags ==
    \E e \in DOMAIN world.W_TextInputBuffer, selected \in BOOLEAN, focused \in BOOLEAN :
        SetTextFlags(e, selected, focused)

NextText ==
    \/ TextFrame
    \/ TextFlags

SpecText == InitText /\ [][NextText]_vars

(***************************************************************************)
(* Specification of the typing scenario: keys typed one per frame, then    *)
(* backspaces one per frame                                                *)
(***************************************************************************)
MaxTyped == 257

InitType ==
    /\ \E max_length \in {0, 3, TEXT_HARD_CAP + 45} :
          world = [TextScene(max_length, FALSE, TRUE) EXCEPT
                      !.W_InteractState[1].focused = TRUE]
    /\ W_NavigationState = [active_scope |-> NoEnt, scope_depth |-> 0]
    /\ InitStatics
    /\ drv = [scenario |-> "type", typed |-> 0, erased |-> 0]

\* a frame types the next key
TypeKey ==
    /\ drv.erased = 0
    /\ drv.typed < MaxTyped
    /\ TextInputFrame(KeyInput(KeyAt(drv.typed + 1)), Ptr(s_prev_input))
    /\ s_prev_input' = KeyInput(KeyAt(drv.typed + 1))
    /\ drv' = [drv EXCEPT !.typed = @ + 1]

\* a frame applies one backspace
EraseKey ==
    /\ drv.erased < drv.typed
    /\ TextInputFrame([ZeroInput EXCEPT !.key_backspace = TRUE], Ptr(s_prev_input))
    /\ s_prev_input' = [ZeroInput EXCEPT !.key_backspace = TRUE]
    /\ drv' = [drv EXCEPT !.erased = @ + 1]

NextType ==
    \/ TypeKey
    \/ EraseKey

SpecType == InitType /\ [][NextType]_vars

(***************************************************************************)
(* Specification of the overlay stack: a modal and three windows, the      *)
(* focus moving among the windows and their contents                       *)
(***************************************************************************)
MaxOverlayFrames == 4

OverlayInputs == {ZeroInput, KeyInput(KEY_ESCAPE)}

\* the z_order props of the three windows: the default, a stack that reaches
\* the ceiling above a window at 0, and a stack just below the ceiling
OverlayZOrders ==
    {<<0, 0, 0>>,
     <<0, Z_ORDER_CEILING - 1, Z_ORDER_CEILING>>,
     <<Z_ORDER_CEILING - 2, Z_ORDER_CEILING - 1, Z_ORDER_CEILING>>}

InitOverlay ==
    /\ \E z \in OverlayZOrders, modal_visible \in BOOLEAN :
          world = OverlayScene(z, modal_visible)
    /\ \E d \in 0..2 :
          W_NavigationState = [active_scope |-> IF d = 0 THEN NoEnt ELSE 1, scope_depth |-> d]
    /\ InitStatics
    /\ drv = [scenario |-> "overlay", frames |-> 0]

OverlayFrame ==
    /\ drv.frames < MaxOverlayFrames
    /\ \E in \in OverlayInputs : FocusFrame(in)
    /\ drv' = [drv EXCEPT !.frames = @ + 1]

OverlayFocus == \E e \in 0..world.n : SetFocus(e)

OverlayModalVisible == \E v \in BOOLEAN : SetModalVisible(1, v)

OverlayWindowVisible == \E v \in BOOLEAN : SetWindowVisible(4, v)

NextOverlay ==
    \/ OverlayFrame
    \/ OverlayFocus
    \/ OverlayModalVisible
    \/ OverlayWindowVisible

SpecOverlay == InitOverlay /\ [][NextOverlay]_vars

(***************************************************************************)
(* Specification of the Escape dismiss: modals and windows of any rank,    *)
(* shown and hidden between frames                                         *)
(***************************************************************************)
\* W_OverlayState of a hand-assembled modal: absent, or present with a z_index
\* below, inside and above the bands
ModalOverlays == {<<FALSE, 0>>, <<TRUE, -1>>, <<TRUE, WINDOW_Z_BASE>>, <<TRUE, MODAL_Z_DEFAULT + 50>>}

\* the z_order props of the two windows: negative, equal, different
WindowZOrders == {<<-1, -1>>, <<-1, 0>>, <<0, 3>>, <<3, 3>>}

InitDismiss ==
    /\ \E overlay1, overlay2 \in ModalOverlays, on_dismiss \in BOOLEAN,
           z \in WindowZOrders :
          world = DismissScene(overlay1, overlay2, on_dismiss, z)
    /\ \E d \in 0..2 :
          W_NavigationState = [active_scope |-> IF d = 0 THEN NoEnt ELSE 1, scope_depth |-> d]
    /\ InitStatics
    /\ drv = [scenario |-> "dismiss"]

DismissFrame == \E in \in OverlayInputs : FocusFrame(in) /\ UNCHANGED drv

DismissModalVisible == \E e \in DOMAIN world.W_Modal, v \in BOOLEAN : SetModalEntityVisible(e, v)

DismissWindowVisible == \E e \in DOMAIN world.W_Window, v \in BOOLEAN : SetWindowVisible(e, v)

NextDismiss ==
    \/ DismissFrame
    \/ DismissModalVisible
    \/ DismissWindowVisible

SpecDismiss == InitDismiss /\ [][NextDismiss]_vars

(***************************************************************************)
(* Specification of the split pane: cross-navigation and the scope stack   *)
(***************************************************************************)
MaxScopeDepth == 2

\* the four Ctrl+Arrow keys and a step of the vertical axis
SplitInputs ==
    {ZeroInput, [ZeroInput EXCEPT !.axis_left1 = 10]}
    \cup {KeyInput(k) : k \in CELS_KEY_CTRL_UP..CELS_KEY_CTRL_LEFT}

InitSplit ==
    /\ \E direction \in {0, 1}, parent7 \in {NoEnt, 3, 5, 6}, parent8 \in {NoEnt, 3, 5} :
          world = SplitScene(direction, parent7, parent8)
    /\ W_NavigationState = [active_scope |-> NoEnt, scope_depth |-> 0]
    /\ InitStatics
    /\ drv = [scenario |-> "split"]

SplitFrame == \E in \in SplitInputs : FocusFrame(in) /\ UNCHANGED drv

SplitPush ==
    /\ W_NavigationState.scope_depth < MaxScopeDepth
    /\ \E e \in DOMAIN world.W_NavigationScope : ScopePush(e)

SplitPop == W_NavigationState.active_scope \in 0..world.n /\ ScopePop

NextSplit ==
    \/ SplitFrame
    \/ SplitPush
    \/ SplitPop

SpecSplit == InitSplit /\ [][NextSplit]_vars

(***************************************************************************)
(* Specification of two split panes, side by side or nested                *)
(***************************************************************************)
InitPanes ==
    /\ \E direction4 \in {0, 1}, parent4 \in {NoEnt, 3}, parent6 \in {NoEnt, 4} :
          world = PanesScene(direction4, parent4, parent6)
    /\ W_NavigationState = [active_scope |-> NoEnt, scope_depth |-> 0]
    /\ InitStatics
    /\ drv = [scenario |-> "panes"]

NextPanes ==
    \/ SplitFrame
    \/ SplitPush
    \/ SplitPop

SpecPanes == InitPanes /\ [][NextPanes]_vars

(***************************************************************************)
(* Specification of a modal that is shown and dismissed over a scope stack *)
(***************************************************************************)
\* Escape, and a step of the vertical axis
BalanceInputs == {ZeroInput, KeyInput(KEY_ESCAPE), [ZeroInput EXCEPT !.axis_left1 = 10]}

\* the modal of ModalScene starts hidden; the driver records whether it is
\* shown, the navigation state at the time it was shown and whether a frame
\* has dismissed it since
InitBalance ==
    /\ world = [ModalScene EXCEPT !.W_Modal[1].visible = FALSE,
                                  !.W_OverlayState[1].visible = FALSE]
    /\ W_NavigationState = [active_scope |-> NoEnt, scope_depth |-> 0]
    /\ InitStatics
    /\ drv = [scenario |-> "balance", shown |-> FALSE, dismissed |-> FALSE,
              before |-> W_NavigationState]

\* the WModal composition runs with visible = true: it writes W_Modal and
\* W_OverlayState and nothing else
BalanceShow ==
    /\ ~world.W_Modal[1].visible
    /\ world' = [world EXCEPT
          !.W_Modal[1].visible = TRUE,
          !.W_OverlayState[1] = [visible |-> TRUE, z_index |-> MODAL_Z_DEFAULT,
                                 modal |-> TRUE]]
    /\ drv' = [drv EXCEPT !.shown = TRUE, !.dismissed = FALSE,
                          !.before = W_NavigationState]
    /\ calls' = <<>>
    /\ phase' = "env"
    /\ UNCHANGED <<W_NavigationState, W_FocusState, s_prev_input, s_prev_focused_window,
                   s_drag_target, s_drag_moving, tick>>

\* the WModal composition runs with visible = false (the application's
\* on_dismiss handler has cleared its flag)
BalanceHide ==
    /\ world.W_Modal[1].visible
    /\ world' = [world EXCEPT
          !.W_Modal[1].visible = FALSE,
          !.W_OverlayState[1] = [visible |-> FALSE, z_index |-> MODAL_Z_DEFAULT,
                                 modal |-> TRUE]]
    /\ drv' = [drv EXCEPT !.shown = FALSE, !.dismissed = FALSE,
                          !.before = W_NavigationState]
    /\ calls' = <<>>
    /\ phase' = "env"
    /\ UNCHANGED <<W_NavigationState, W_FocusState, s_prev_input, s_prev_focused_window,
                   s_drag_target, s_drag_moving, tick>>

BalanceFrame ==
    /\ \E in \in BalanceInputs : FocusFrame(in)
    /\ drv' = [drv EXCEPT !.dismissed = @ \/ (\E i \in 1..Len(calls') :
                                                 calls'[i] = <<"on_dismiss", 1>>)]

\* the application pushes and pops scopes while the modal is hidden
BalancePush ==
    /\ ~world.W_Modal[1].visible
    /\ W_NavigationState.scope_depth < MaxScopeDepth
    /\ \E e \in DOMAIN world.W_NavigationScope :
          ScopePush(e)

BalancePop == ~world.W_Modal[1].visible /\ ScopePop

NextBalance ==
    \/ BalanceShow
    \/ BalanceHide
    \/ BalanceFrame
    \/ BalancePush
    \/ BalancePop

SpecBalance == InitBalance /\ [][NextBalance]_vars

(***************************************************************************)
(* Specification of the scope stack interface: calls of push, pop and      *)
(* active between the frames of a split pane                               *)
(***************************************************************************)
\* the driver records the last call, its argument and what
\* widgets_nav_scope_active returns after it
InitScope ==
    /\ \E direction \in {0, 1}, parent7 \in {NoEnt, 3} :
          world = SplitScene(direction, parent7, NoEnt)
    /\ W_NavigationState = [active_scope |-> NoEnt, scope_depth |-> 0]
    /\ InitStatics
    /\ drv = [scenario |-> "scope", op |-> "none", arg |-> NoEnt, active |-> NoEnt]

ScopeCall(op, arg, ns) ==
    /\ W_NavigationState' = ns
    /\ drv' = [drv EXCEPT !.op = op, !.arg = arg, !.active = widgets_nav_scope_active(ns)]
    /\ calls' = <<>>
    /\ phase' = "env"
    /\ UNCHANGED <<world, W_FocusState, s_prev_input, s_prev_focused_window,
                   s_drag_target, s_drag_moving, tick>>

ScopeCallPush ==
    /\ W_NavigationState.scope_depth < MaxScopeDepth
    /\ \E e \in DOMAIN world.W_NavigationScope :
          ScopeCall("push", e, widgets_nav_scope_push(W_NavigationState, e))

ScopeCallPop ==
    /\ drv.scenario = "scope"
    /\ ScopeCall("pop", NoEnt, widgets_nav_scope_pop(W_NavigationState))

ScopeFrame ==
    /\ \E in \in SplitInputs : FocusFrame(in)
    /\ drv' = [drv EXCEPT !.op = "none", !.arg = NoEnt,
                          !.active = widgets_nav_scope_active(W_NavigationState')]

NextScope ==
    \/ ScopeCallPush
    \/ ScopeCallPop
    \/ ScopeFrame

SpecScope == InitScope /\ [][NextScope]_vars

(***************************************************************************)
(* Specification of a scrolled list: each frame runs the focus system and  *)
(* then W_ScrollClamp, the order in which Widgets_init declares them       *)
(***************************************************************************)
ListInputs ==
    {ZeroInput, [ZeroInput EXCEPT !.axis_left1 = 10], [ZeroInput EXCEPT !.axis_left1 = -10],
     [ZeroInput EXCEPT !.key_page_up = TRUE], [ZeroInput EXCEPT !.key_page_down = TRUE],
     [ZeroInput EXCEPT !.key_home = TRUE], [ZeroInput EXCEPT !.key_end = TRUE]}

\* the driver records which system runs next and the scroll_offset the focus
\* system left
InitList ==
    /\ \E parent3 \in {1, 2}, height \in {0, 2, 5}, total_count \in {0, 4, 6},
          scroll_offset \in {0, 1} :
          world = ListScene(parent3, height, total_count, scroll_offset)
    /\ W_NavigationState = [active_scope |-> NoEnt, scope_depth |-> 0]
    /\ InitStatics
    /\ drv = [scenario |-> "list", next |-> "W_FocusSystem", left |-> 0]

ListFocusSystem ==
    /\ drv.next = "W_FocusSystem"
    /\ \E in \in ListInputs : FocusFrame(in)
    /\ drv' = [drv EXCEPT !.next = "W_ScrollClamp",
                          !.left = world'.W_Scrollable[1].scroll_offset]

ListScrollClamp ==
    /\ drv.next = "W_ScrollClamp"
    /\ \E folded \in BOOLEAN : SystemStep(scroll_clamp_run(world, folded), "W_ScrollClamp")
    /\ drv' = [drv EXCEPT !.next = "W_FocusSystem"]

\* between frames the application writes the offset
ListExternalOffset ==
    /\ drv.next = "W_FocusSystem"
    /\ \E v \in {-1, 7} :
          /\ world.W_Scrollable[1].scroll_offset # v
          /\ world' = [world EXCEPT !.W_Scrollable[1].scroll_offset = v]
    /\ EnvStep

NextList ==
    \/ ListFocusSystem
    \/ ListScrollClamp
    \/ ListExternalOffset

SpecList == InitList /\ [][NextList]_vars

(***************************************************************************)
(* Specification of move mode over two draggable windows                   *)
(***************************************************************************)
MaxDeskFrames == 3

\* the toggle key, a direction, accept, the cancel button alone, and the
\* Escape key as raw key 27 together with the cancel button
DeskInputs ==
    {ZeroInput, KeyInput(KEY_M),
     [ZeroInput EXCEPT !.axis_left0 = 10],
     [ZeroInput EXCEPT !.button_accept = TRUE],
     [ZeroInput EXCEPT !.button_cancel = TRUE],
     [KeyInput(KEY_ESCAPE) EXCEPT !.button_cancel = TRUE]}

InitDesk ==
    /\ \E z \in {<<0, 0>>, <<1, 0>>}, visible2 \in BOOLEAN, modal_visible \in BOOLEAN :
          /\ world = DeskScene(z, visible2, modal_visible)
          /\ drv = [scenario |-> "desk", frames |-> 0, exit |-> FALSE, z_order |-> z]
    /\ W_NavigationState = [active_scope |-> 1, scope_depth |-> 1]
    /\ InitStatics

\* the driver notes whether the frame has ended the move mode of its target
DeskFrame ==
    /\ drv.frames < MaxDeskFrames
    /\ \E in \in DeskInputs : FocusFrame(in)
    /\ drv' = [drv EXCEPT !.frames = @ + 1,
                          !.exit = (s_drag_moving /\ ~s_drag_moving'
                                    /\ s_drag_target' = s_drag_target)]

DeskFocus == \E e \in {1, 2} : SetFocus(e)

\* the WWindow composition of a window runs again, with its visible prop set
\* or cleared and its other props as before: every cel_has writes its
\* component anew, and cel_has(W_Draggable) zero-initialises it
DeskCompose ==
    /\ \E e \in {1, 2}, v \in BOOLEAN :
          /\ world' = AddWindow(world, e, NoEnt, v, drv.z_order[e], TRUE)
          /\ world' # world
    /\ EnvStep

NextDesk ==
    \/ DeskFrame
    \/ DeskFocus
    \/ DeskCompose

SpecDesk == InitDesk /\ [][NextDesk]_vars

(***************************************************************************)
(* Specification of the focus ring: Tab and Shift-Tab over a set of        *)
(* focusable entities that shrinks                                         *)
(***************************************************************************)
MaxFocusable == 3

RingInputs ==
    {ZeroInput,
     [ZeroInput EXCEPT !.key_tab = TRUE],
     [ZeroInput EXCEPT !.key_shift_tab = TRUE],
     [ZeroInput EXCEPT !.key_tab = TRUE, !.key_shift_tab = TRUE],
     [ZeroInput EXCEPT !.axis_left1 = 10],
     [ZeroInput EXCEPT !.button_accept = TRUE]}

InitRing ==
    /\ \E k \in 0..MaxFocusable : world = RingScene(k)
    /\ W_NavigationState = [active_scope |-> NoEnt, scope_depth |-> 0]
    /\ InitStatics
    /\ drv = [scenario |-> "ring"]

RingFrame == \E in \in RingInputs : FocusFrame(in) /\ UNCHANGED drv

\* the last collapsible is destroyed
RingDespawn == drv.scenario = "ring" /\ DespawnLast

NextRing ==
    \/ RingFrame
    \/ RingDespawn

SpecRing == InitRing /\ [][NextRing]_vars

(***************************************************************************)
(* Specification of window dragging: one draggable window, the M key, the  *)
(* arrows, accept and cancel                                               *)
(***************************************************************************)
MaxDragFrames == 4

\* single keys and buttons, and frames that combine the M key or the accept
\* button with an arrow
DragInputs ==
    {ZeroInput, KeyInput(KEY_M),
     [KeyInput(KEY_M) EXCEPT !.axis_left0 = 10],
     [ZeroInput EXCEPT !.axis_left0 = -10],
     [ZeroInput EXCEPT !.axis_left0 = 10],
     [ZeroInput EXCEPT !.axis_left1 = -10],
     [ZeroInput EXCEPT !.axis_left1 = 10],
     [ZeroInput EXCEPT !.button_accept = TRUE],
     [ZeroInput EXCEPT !.button_accept = TRUE, !.axis_left1 = 10],
     [ZeroInput EXCEPT !.button_cancel = TRUE]}

\* position, size and terminal: the composition's defaults on an unknown
\* terminal; a small window inside a small terminal; a window wider and
\* higher than the terminal; a window without size placed beyond the screen
DragPlacements ==
    {<< <<0, 0>>, <<40, 0>>, NoTerm >>,
     << <<2, 2>>, <<3, 2>>, Term(6, 5) >>,
     << <<5, 3>>, <<40, 10>>, Term(20, 5) >>,
     << <<100, 100>>, <<0, 0>>, NoTerm >>}

InitDrag ==
    /\ \E p \in DragPlacements : world = DragScene(p[1], p[2], p[3])
    /\ W_NavigationState = [active_scope |-> NoEnt, scope_depth |-> 0]
    /\ InitStatics
    /\ drv = [scenario |-> "drag", frames |-> 0]

DragFrame ==
    /\ drv.scenario = "drag"
    /\ drv.frames < MaxDragFrames
    /\ \E in \in DragInputs : FocusFrame(in)
    /\ drv' = [drv EXCEPT !.frames = @ + 1]

\* the application hides or shows the window
DragWindowVisible ==
    /\ drv.scenario = "drag"
    /\ \E v \in BOOLEAN : SetWindowVisible(1, v)

NextDrag ==
    \/ DragFrame
    \/ DragWindowVisible

SpecDrag == InitDrag /\ [][NextDrag]_vars

(***************************************************************************)
(* Specification of typing inside a navigation group: the focus system's   *)
(* frames and the text engine's calls on a group that holds a text input   *)
(***************************************************************************)
\* arrows, a printable key and the accept button
TypingInputs ==
    {ZeroInput, KeyInput(97),
     [ZeroInput EXCEPT !.axis_left0 = -10],
     [ZeroInput EXCEPT !.axis_left0 = 10],
     [ZeroInput EXCEPT !.axis_left1 = -10],
     [ZeroInput EXCEPT !.axis_left1 = 10],
     [ZeroInput EXCEPT !.button_accept = TRUE]}

InitTyping ==
    /\ \E wrap \in BOOLEAN, direction \in {0, 1} :
          world = TypingScene(wrap, direction, SmallMaxLength)
    /\ W_NavigationState = [active_scope |-> NoEnt, scope_depth |-> 0]
    /\ InitStatics
    /\ drv = [scenario |-> "typing", active |-> FALSE]

\* a frame of the focus system; the driver notes whether a text input was
\* active when the frame began
TypingFrame ==
    /\ drv.scenario = "typing"
    /\ \E in \in TypingInputs : FocusFrame(in)
    /\ drv' = [drv EXCEPT !.active = text_input_is_active(world)]

\* the application calls the text engine
TypingText ==
    /\ drv.scenario = "typing"
    /\ \E in \in TypingInputs, prev_input \in {NULL, Ptr(s_prev_input)} :
          TextInputFrame(in, prev_input)
    /\ UNCHANGED <<s_prev_input, drv>>

\* the focus owner gives the keyboard focus to the text input or takes it away
TypingFocus ==
    /\ drv.scenario = "typing"
    /\ \E focused \in BOOLEAN : SetTextFlags(2, world.W_Selectable[2].selected, focused)

NextTyping ==
    \/ TypingFrame
    \/ TypingText
    \/ TypingFocus

SpecTyping == InitTyping /\ [][NextTyping]_vars

(***************************************************************************)
(* Specification of the clamp systems: one component with any field values *)
(***************************************************************************)
IntSamples == {INT_MIN, -1, 0, 1, 3, INT_MAX}

FloatSamples == {NaN, Float(-1), Float(0), Float(2)}

InitClamp ==
    /\ \/ /\ \E value \in IntSamples, min \in IntSamples, max \in IntSamples :
               world = RangeIScene(value, min, max)
          /\ drv = [scenario |-> "clamp", folded |-> FALSE, repeated |-> FALSE]
       \/ /\ \E value \in FloatSamples, min \in FloatSamples, max \in FloatSamples :
               world = RangeFScene(value, min, max)
          /\ drv = [scenario |-> "clamp", folded |-> FALSE, repeated |-> FALSE]
       \/ /\ \E scroll_offset \in IntSamples, total_count \in IntSamples,
                visible_count \in IntSamples :
               world = ScrollScene(scroll_offset, total_count, visible_count)
          /\ \E folded \in BOOLEAN : drv = [scenario |-> "clamp", folded |-> folded, repeated |-> FALSE]
    /\ W_NavigationState = [active_scope |-> NoEnt, scope_depth |-> 0]
    /\ InitStatics

\* a run of a clamp system; the driver notes whether the same system ran in
\* the step before
ClampRun(w, system) ==
    /\ drv.scenario = "clamp"
    /\ SystemStep(w, system)
    /\ drv' = [drv EXCEPT !.repeated = (phase = system)]

RangeClampF == ClampRun(range_clamp_f_run(world), "W_RangeClampF")

RangeClampI == ClampRun(range_clamp_i_run(world), "W_RangeClampI")

ScrollClamp == ClampRun(scroll_clamp_run(world, drv.folded), "W_ScrollClamp")

\* the application writes the value of the range or the offset of the scroll
ClampExternalValue ==
    /\ drv.scenario = "clamp"
    /\ \/ \E e \in DOMAIN world.W_RangeValueI, v \in IntSamples :
             /\ world.W_RangeValueI[e].value # v
             /\ world' = [world EXCEPT !.W_RangeValueI[e].value = v]
       \/ \E e \in DOMAIN world.W_RangeValueF, v \in FloatSamples :
             /\ world.W_RangeValueF[e].value # v
             /\ world' = [world EXCEPT !.W_RangeValueF[e].value = v]
       \/ \E e \in DOMAIN world.W_Scrollable, v \in IntSamples :
             /\ world.W_Scrollable[e].scroll_offset # v
             /\ world' = [world EXCEPT !.W_Scrollable[e].scroll_offset = v]
    /\ EnvStep

NextClamp ==
    \/ RangeClampF
    \/ RangeClampI
    \/ ScrollClamp
    \/ ClampExternalValue

SpecClamp == InitClamp /\ [][NextClamp]_vars

(***************************************************************************)
(* Properties of the Navigation Scope Engine                               *)
(***************************************************************************)
\* the direct children of scope e that carry W_Selectable, read from the store
SelectableChildren(w, e) == {c \in DOMAIN w.W_Selectable : w.parent[c] = e}

\* the component of the directional axis a scope of this direction listens to
ScopeAxis(direction) == IF direction = 0 THEN "axis_left1" ELSE "axis_left0"

\* C1: after every frame, every scope whose child_count is positive has
\* 0 <= selected_index < child_count, and child_count is the number of its
\* selectable children; whatever index it held before the frame and whatever
\* edge occurred.
C1_RingInvariant ==
    phase = "frame" =>
        \A e \in DOMAIN world.W_NavigationScope :
            LET scope == world.W_NavigationScope[e]
            IN /\ scope.child_count = Cardinality(SelectableChildren(world, e))
               /\ scope.child_count > 0 =>
                    scope.selected_index >= 0 /\ scope.selected_index < scope.child_count

\* a frame has run on a scope with three selectable children while "down" was
\* pressed, and its index is the last one
C1_Witness ==
    /\ phase = "frame"
    /\ \E e \in DOMAIN world.W_NavigationScope :
          /\ world.W_NavigationScope[e].child_count = 3
          /\ world.W_NavigationScope[e].selected_index = 2
          /\ world.W_NavigationScope[e].direction = 0
          /\ s_prev_input.axis_left1 > AXIS_THRESHOLD

\* C4: in a frame, a scope with wrap = false and a valid index stays at 0 on a
\* prev edge at index 0, stays at child_count - 1 on a next edge at the last
\* index, and never moves against the direction of the edge (no jump to the
\* opposite end).
C4_NoWrapBoundary ==
    [][phase' = "frame" =>
        \A e \in DOMAIN world.W_NavigationScope :
            LET scope == world.W_NavigationScope[e]
                n == Cardinality(SelectableChildren(world, e))
                axis == ScopeAxis(scope.direction)
                prev_edge == /\ s_prev_input'[axis] < -AXIS_THRESHOLD
                             /\ s_prev_input[axis] >= -AXIS_THRESHOLD
                next_edge == /\ s_prev_input'[axis] > AXIS_THRESHOLD
                             /\ s_prev_input[axis] <= AXIS_THRESHOLD
                idx == scope.selected_index
                idx1 == world'.W_NavigationScope[e].selected_index
            IN (~scope.wrap /\ n > 0 /\ idx >= 0 /\ idx < n) =>
                  /\ (prev_edge /\ idx = 0) => idx1 = 0
                  /\ (next_edge /\ idx = n - 1) => idx1 = n - 1
                  /\ prev_edge => idx1 <= idx
                  /\ next_edge => idx1 >= idx
                  /\ world'.W_NavigationScope[e].child_count = n
    ]_vars

\* a frame with the scope's axis pushed to "next" has run on a non-wrapping
\* scope of three children, which stands on its last child
C4_Witness ==
    /\ phase = "frame"
    /\ \E e \in DOMAIN world.W_NavigationScope :
          LET scope == world.W_NavigationScope[e]
          IN /\ ~scope.wrap
             /\ scope.child_count = 3
             /\ scope.selected_index = 2
             /\ s_prev_input[ScopeAxis(scope.direction)] > AXIS_THRESHOLD

\* C5: in a frame whose input repeats a condition of the previous frame, the
\* condition's action does not fire again: an axis held beyond the threshold
\* leaves every valid selected_index where it is, a held accept button presses
\* no button and toggles no collapsible, a repeated Escape key dismisses no
\* modal and pops no scope.
C5_EdgeOnce ==
    [][phase' = "frame" =>
        /\ (s_prev_input.button_accept /\ s_prev_input'.button_accept) =>
              /\ \A i \in 1..Len(calls') : calls'[i][1] # "on_press"
              /\ world'.W_Collapsible = world.W_Collapsible
        /\ (/\ s_prev_input.has_raw_key /\ s_prev_input.raw_key = KEY_ESCAPE
            /\ s_prev_input'.has_raw_key /\ s_prev_input'.raw_key = KEY_ESCAPE) =>
              /\ \A i \in 1..Len(calls') : calls'[i][1] # "on_dismiss"
              /\ W_NavigationState' = W_NavigationState
        /\ \A e \in DOMAIN world.W_NavigationScope :
              LET scope == world.W_NavigationScope[e]
                  n == Cardinality(SelectableChildren(world, e))
                  axis == ScopeAxis(scope.direction)
                  held == \/ /\ s_prev_input[axis] > AXIS_THRESHOLD
                             /\ s_prev_input'[axis] > AXIS_THRESHOLD
                          \/ /\ s_prev_input[axis] < -AXIS_THRESHOLD
                             /\ s_prev_input'[axis] < -AXIS_THRESHOLD
              IN (held /\ n > 0 /\ scope.selected_index >= 0 /\ scope.selected_index < n) =>
                    world'.W_NavigationScope[e].selected_index = scope.selected_index
    ]_vars

\* a frame with the accept button down has pressed the selected button
C5_Witness ==
    /\ phase = "frame"
    /\ s_prev_input.button_accept
    /\ \E i \in 1..Len(calls) : calls[i][1] = "on_press"

\* C2 as stated: after a frame, every scope has exactly one selectable child
\* with W_Selectable.selected (none when it has no selectable child), however
\* many selectable children it has.
C2_ExclusiveSelectionAnyCount ==
    phase = "frame" =>
        \A e \in DOMAIN world.W_NavigationScope :
            LET cs == SelectableChildren(world, e)
                sel == {c \in cs : world.W_Selectable[c].selected}
            IN Cardinality(sel) = IF cs = {} THEN 0 ELSE 1

\* C2: after a frame, every scope with at most MAX_NAV_CHILDREN selectable
\* children has exactly one of them with W_Selectable.selected (none when it
\* has no selectable child), whatever flags the children carried before.
C2_ExclusiveSelection ==
    phase = "frame" =>
        \A e \in DOMAIN world.W_NavigationScope :
            LET cs == SelectableChildren(world, e)
                sel == {c \in cs : world.W_Selectable[c].selected}
            IN Cardinality(cs) <= MAX_NAV_CHILDREN =>
                  Cardinality(sel) = IF cs = {} THEN 0 ELSE 1

\* a frame has run on a scope of exactly MAX_NAV_CHILDREN selectable children,
\* its index stands on the last of them and that child alone is selected
C2_Witness ==
    /\ phase = "frame"
    /\ \E e \in DOMAIN world.W_NavigationScope :
          LET cs == SelectableChildren(world, e)
          IN /\ Cardinality(cs) = MAX_NAV_CHILDREN
             /\ world.W_NavigationScope[e].selected_index = MAX_NAV_CHILDREN - 1
             /\ {c \in cs : world.W_Selectable[c].selected} = {e + MAX_NAV_CHILDREN}

\* C3: in the cycling scenario on a wrapping scope of n selectable children,
\* after p separate presses of "next" (of "prev") selected_index is the start
\* index plus p (minus p) modulo n; after n presses of "next" it is the start
\* index again.
C3_WrapCycling ==
    drv.scenario = "cycle" =>
        \A e \in DOMAIN world.W_NavigationScope :
            LET n == Cardinality(SelectableChildren(world, e))
                idx == world.W_NavigationScope[e].selected_index
            IN /\ idx = (drv.start + drv.step * drv.presses) % n
               /\ (drv.step = 1 /\ drv.presses = n) => idx = drv.start

\* three separate presses of "down" on a vertical wrapping scope of three
\* children that stood at 1 have brought it back to 1
C3_Witness ==
    /\ drv.scenario = "cycle"
    /\ phase = "frame"
    /\ drv.step = 1 /\ drv.direction = 0 /\ drv.start = 1 /\ drv.presses = 3
    /\ \E e \in DOMAIN world.W_NavigationScope :
          /\ world.W_NavigationScope[e].child_count = 3
          /\ world.W_NavigationScope[e].wrap
          /\ world.W_NavigationScope[e].selected_index = 1

(***************************************************************************)
(* Properties of the Text Input Edit Engine                                *)
(***************************************************************************)
\* the capacity in characters of a text input configured with max_length
Capacity(max_length) ==
    IF max_length >= 1 /\ max_length <= TEXT_HARD_CAP THEN max_length ELSE TEXT_HARD_CAP

\* the callback named name was invoked for entity e in the last engine call
Called(cs, name, e) == \E i \in 1..Len(cs) : cs[i][1] = name /\ cs[i][2] = e

\* C6: in the typing scenario, which starts from the zeroed buffer of an active
\* text input, whenever as many backspace frames as typing frames have run
\* (n of each, n from 0 to beyond the capacity) length, byte_length and
\* cursor_pos are 0 and every byte of the buffer is 0.
C6_RoundTrip ==
    (drv.scenario = "type" /\ drv.erased = drv.typed) =>
        \A e \in DOMAIN world.W_TextInputBuffer :
            LET buf == world.W_TextInputBuffer[e]
            IN /\ buf.length = 0 /\ buf.byte_length = 0 /\ buf.cursor_pos = 0
               /\ \A i \in 1..TEXT_BUFFER_SIZE : buf.buffer[i] = 0

\* more keys than the 255-character capacity were typed into a text input
\* with max_length 0 and as many backspaces applied
C6_Witness ==
    /\ drv.scenario = "type"
    /\ phase = "text"
    /\ drv.typed > TEXT_HARD_CAP
    /\ drv.erased = drv.typed
    /\ world.W_TextInput[1].max_length = 0
    /\ world.W_TextInputBuffer[1].initialized

\* C7: a frame that brings a printable key (and no backspace or delete) to an
\* active text input whose buffer holds its capacity of characters (max_length,
\* or 255 when max_length is <= 0 or > 255) changes neither length,
\* byte_length, cursor_pos nor the buffer content and invokes no callback.
C7_CapacityBoundary ==
    [][phase' = "text" =>
        \A e \in DOMAIN world.W_TextInputBuffer :
            LET buf == world.W_TextInputBuffer[e]
                buf1 == world'.W_TextInputBuffer[e]
                in == s_prev_input'
            IN (/\ buf.initialized
                /\ world.W_Selectable[e].selected /\ world.W_InteractState[e].focused
                /\ buf.length = Capacity(world.W_TextInput[e].max_length)
                /\ in.has_raw_key /\ in.raw_key >= KEY_PRINT_MIN /\ in.raw_key <= KEY_PRINT_MAX
                /\ ~in.key_backspace /\ ~in.key_delete /\ ~in.button_accept) =>
                  /\ buf1.length = buf.length
                  /\ buf1.byte_length = buf.byte_length
                  /\ buf1.cursor_pos = buf.cursor_pos
                  /\ buf1.buffer = buf.buffer
                  /\ calls' = <<>>
    ]_vars

\* one key more than the 255-character capacity was typed into a text input
\* with max_length 0: the buffer holds 255 characters and no callback ran
C7_Witness ==
    /\ drv.scenario = "type"
    /\ phase = "text"
    /\ drv.typed = TEXT_HARD_CAP + 1 /\ drv.erased = 0
    /\ world.W_TextInput[1].max_length = 0
    /\ world.W_TextInputBuffer[1].length = TEXT_HARD_CAP
    /\ calls = <<>>

\* C8: every initialised buffer has 0 <= cursor_pos <= length <= capacity
\* (min(max_length, 255), 255 when max_length is not positive), length equal to
\* byte_length, byte_length at most 255, a zero byte at offset byte_length, and
\* no frame writes outside the buffer.
C8_BufferInvariant ==
    \A e \in DOMAIN world.W_TextInputBuffer :
        LET buf == world.W_TextInputBuffer[e]
        IN buf.initialized =>
              /\ 0 <= buf.cursor_pos /\ buf.cursor_pos <= buf.length
              /\ buf.length <= Capacity(world.W_TextInput[e].max_length)
              /\ buf.length = buf.byte_length
              /\ buf.byte_length <= TEXT_HARD_CAP
              /\ buf.byte_length + 1 <= TEXT_BUFFER_SIZE
              /\ buf.buffer[buf.byte_length + 1] = 0
              /\ Len(buf.buffer) = TEXT_BUFFER_SIZE
              /\ ~Called(calls, "out_of_bounds", e)

\* a frame that combined a printable key with delete, right arrow and End has
\* run on a text input whose max_length exceeds 255 and whose buffer is full
C8_Witness ==
    /\ phase = "text"
    /\ s_prev_input.has_raw_key /\ s_prev_input.key_delete /\ s_prev_input.key_end
    /\ \E e \in DOMAIN world.W_TextInputBuffer :
          /\ world.W_TextInput[e].max_length > TEXT_HARD_CAP
          /\ world.W_TextInputBuffer[e].length = TEXT_HARD_CAP
          /\ world.W_TextInputBuffer[e].cursor_pos = TEXT_HARD_CAP

\* C9: a frame leaves the initialised buffer of every text input that is not
\* both selected and focused as it was (content, length, byte_length,
\* cursor_pos, scroll_x) and invokes neither on_change nor on_submit for it.
C9_ActivationGate ==
    [][phase' = "text" =>
        \A e \in DOMAIN world.W_TextInputBuffer :
            (/\ world.W_TextInputBuffer[e].initialized
             /\ ~(world.W_Selectable[e].selected /\ world.W_InteractState[e].focused)) =>
                /\ world'.W_TextInputBuffer[e] = world.W_TextInputBuffer[e]
                /\ ~Called(calls', "on_change", e)
                /\ ~Called(calls', "on_submit", e)
    ]_vars

\* a frame with a printable key has run on a text input that holds text, is
\* selected but not focused, and no callback ran
C9_Witness ==
    /\ phase = "text"
    /\ s_prev_input.has_raw_key /\ s_prev_input.raw_key = 97
    /\ calls = <<>>
    /\ \E e \in DOMAIN world.W_TextInputBuffer :
          /\ world.W_TextInputBuffer[e].initialized
          /\ world.W_TextInputBuffer[e].length > 0
          /\ world.W_Selectable[e].selected
          /\ ~world.W_InteractState[e].focused

\* C10 as stated: a frame in which on_submit is invoked for a text input
\* leaves the content and the length of its buffer as they were.
C10_SubmitDoesNotInsert ==
    [][phase' = "text" =>
        \A e \in DOMAIN world.W_TextInputBuffer :
            Called(calls', "on_submit", e) =>
                /\ world'.W_TextInputBuffer[e].buffer = world.W_TextInputBuffer[e].buffer
                /\ world'.W_TextInputBuffer[e].length = world.W_TextInputBuffer[e].length
    ]_vars

\* a frame with the accept button down and the Space key as raw key has
\* invoked on_submit and on_change: the space is in the buffer
C10_Witness ==
    /\ phase = "text"
    /\ s_prev_input.button_accept /\ s_prev_input.has_raw_key /\ s_prev_input.raw_key = 32
    /\ \E e \in DOMAIN world.W_TextInputBuffer :
          LET buf == world.W_TextInputBuffer[e]
          IN /\ Called(calls, "on_submit", e)
             /\ Called(calls, "on_change", e)
             /\ buf.cursor_pos > 0
             /\ buf.buffer[buf.cursor_pos] = 32

\* the positions of the calls of callback name for entity e
CallsOf(cs, name, e) == {i \in 1..Len(cs) : cs[i][1] = name /\ cs[i][2] = e}

\* C11: in a frame on a selected and focused text input, on_change is invoked
\* exactly once when an insert, a backspace or a delete was applied (an insert
\* needs a printable key and room, a backspace a character before the cursor,
\* a delete a character at the cursor, each judged after the edits before it)
\* and not at all otherwise; the one invocation is handed the content the
\* buffer has at the end of the frame.
C11_ChangeNotification ==
    [][phase' = "text" =>
        \A e \in DOMAIN world.W_TextInputBuffer :
            LET buf == world.W_TextInputBuffer[e]
                in == s_prev_input'
                inserted == /\ in.has_raw_key
                            /\ in.raw_key >= KEY_PRINT_MIN /\ in.raw_key <= KEY_PRINT_MAX
                            /\ buf.length < Capacity(world.W_TextInput[e].max_length)
                cursor1 == IF inserted THEN buf.cursor_pos + 1 ELSE buf.cursor_pos
                length1 == IF inserted THEN buf.length + 1 ELSE buf.length
                erased == in.key_backspace /\ cursor1 > 0
                cursor2 == IF erased THEN cursor1 - 1 ELSE cursor1
                length2 == IF erased THEN length1 - 1 ELSE length1
                deleted == in.key_delete /\ cursor2 < length2
                changes == CallsOf(calls', "on_change", e)
            IN (world.W_Selectable[e].selected /\ world.W_InteractState[e].focused) =>
                  /\ Cardinality(changes) = IF inserted \/ erased \/ deleted THEN 1 ELSE 0
                  /\ \A i \in changes :
                        calls'[i][3] = world'.W_TextInputBuffer[e].buffer
    ]_vars

\* a frame with only the delete key has removed the character at the cursor
\* of an active text input, and on_change ran once with the shortened text
C11_Witness ==
    /\ phase = "text"
    /\ s_prev_input.key_delete /\ ~s_prev_input.has_raw_key /\ ~s_prev_input.key_backspace
    /\ \E e \in DOMAIN world.W_TextInputBuffer :
          /\ Cardinality(CallsOf(calls, "on_change", e)) = 1
          /\ world.W_TextInputBuffer[e].length = NearFull - 1
          /\ world.W_TextInputBuffer[e].cursor_pos < NearFull - 1

(***************************************************************************)
(* Properties of the Overlay Stack Engine                                  *)
(***************************************************************************)
VisibleModals(w) == {e \in DOMAIN w.W_Modal : w.W_Modal[e].visible}

VisibleWindows(w) == {e \in DOMAIN w.W_Window : w.W_Window[e].visible}

\* the z_index a modal is ranked by
ModalRank(w, e) ==
    IF e \in DOMAIN w.W_OverlayState THEN w.W_OverlayState[e].z_index ELSE MODAL_Z_DEFAULT

\* the input in is an Escape key that the input prev did not carry
EscapeEdge(in, prev) ==
    /\ in.has_raw_key /\ in.raw_key = KEY_ESCAPE
    /\ ~(prev.has_raw_key /\ prev.raw_key = KEY_ESCAPE)

\* navigation state ns1 is ns with one level popped
PoppedOnce(ns, ns1) ==
    /\ ns1.scope_depth = IF ns.scope_depth > 0 THEN ns.scope_depth - 1 ELSE 0
    /\ ns1.active_scope = IF ns1.scope_depth = 0 THEN NoEnt ELSE ns.active_scope

\* the positions of the calls of callback name
CallsNamed(cs, name) == {i \in 1..Len(cs) : cs[i][1] = name}

\* entity e and its ancestors
RECURSIVE Lineage(_, _)
Lineage(w, e) == IF e = NoEnt THEN {} ELSE {e} \cup Lineage(w, w.parent[e])

\* the visible windows have pairwise different z_order
DistinctZOrders(w) ==
    \A a, b \in VisibleWindows(w) : a # b => w.W_Window[a].z_order # w.W_Window[b].z_order

\* C12: in a frame with an Escape edge, with a visible modal and a visible
\* window, exactly one callback runs, the on_dismiss of a visible modal of
\* highest z_index; no on_close runs; one scope level is popped.
C12_ModalPriority ==
    [][(/\ phase' = "frame"
        /\ EscapeEdge(s_prev_input', s_prev_input)
        /\ VisibleModals(world) # {}
        /\ VisibleWindows(world) # {}) =>
            /\ CallsNamed(calls', "on_close") = {}
            /\ Cardinality(CallsNamed(calls', "on_dismiss")) = 1
            /\ \A i \in CallsNamed(calls', "on_dismiss") :
                  /\ calls'[i][2] \in VisibleModals(world)
                  /\ \A o \in VisibleModals(world) :
                        ModalRank(world, o) <= ModalRank(world, calls'[i][2])
            /\ PoppedOnce(W_NavigationState, W_NavigationState')
    ]_vars

\* an Escape frame has run with the modal and the windows visible at scope
\* depth 1: on_dismiss ran and the scope stack is empty
C12_Witness ==
    /\ drv.scenario = "overlay"
    /\ phase = "frame"
    /\ s_prev_input.has_raw_key /\ s_prev_input.raw_key = KEY_ESCAPE
    /\ VisibleModals(world) # {} /\ VisibleWindows(world) # {}
    /\ calls = << <<"on_dismiss", 1>> >>
    /\ W_NavigationState = [active_scope |-> NoEnt, scope_depth |-> 0]
    /\ drv.frames = 1

\* C15 as stated: every visible window has its z_order within [0, 49] and its
\* OverlayState.z_index, 150 + z_order, below the modal band value 200.
C15_ZBandBound ==
    drv.scenario = "overlay" =>
        \A e \in VisibleWindows(world) :
            /\ 0 <= world.W_Window[e].z_order
            /\ world.W_Window[e].z_order <= Z_ORDER_CEILING
            /\ world.W_OverlayState[e].z_index = WINDOW_Z_BASE + world.W_Window[e].z_order
            /\ world.W_OverlayState[e].z_index < MODAL_Z_DEFAULT

\* a window was raised over a window at the ceiling while another visible
\* window stood at 0: its z_order is 50 and its z_index the modal band value
C15_Witness ==
    /\ phase = "frame"
    /\ \E e, o \in VisibleWindows(world) :
          /\ e = s_prev_focused_window
          /\ world.W_Window[e].z_order = Z_ORDER_CEILING + 1
          /\ world.W_OverlayState[e].z_index = MODAL_Z_DEFAULT
          /\ world.W_Window[o].z_order = 0

\* C16 as stated: once a window has been raised, no two visible windows share
\* a z_order.
C16_ZOrderUnique ==
    (drv.scenario = "overlay" /\ phase = "frame" /\ s_prev_focused_window # NoEnt) =>
        DistinctZOrders(world)

\* C16 amended: the window a frame raises ends strictly above every other
\* visible window, and a frame keeps pairwise different z_orders of the
\* visible windows pairwise different.
C16_RaisedOnTop ==
    [][phase' = "frame" =>
        /\ DistinctZOrders(world) => DistinctZOrders(world')
        /\ (s_prev_focused_window' # NoEnt /\ s_prev_focused_window' # s_prev_focused_window) =>
              \A o \in VisibleWindows(world') \ {s_prev_focused_window'} :
                  world'.W_Window[s_prev_focused_window'].z_order > world'.W_Window[o].z_order
    ]_vars

\* a window was raised by a frame that compacted the band: it stands on top
\* of windows with different z_orders, the lowest of them at 0
C16_Witness ==
    /\ drv.scenario = "overlay"
    /\ phase = "frame"
    /\ s_prev_focused_window # NoEnt
    /\ VisibleWindows(world) = DOMAIN world.W_Window
    /\ DistinctZOrders(world)
    /\ world.W_Window[s_prev_focused_window].z_order = 3
    /\ \E o \in VisibleWindows(world) : world.W_Window[o].z_order = 0

\* C17 as stated: a frame in which the focused entity is a visible window or
\* one of its descendants, and that window is not the one focused in the
\* previous frame, leaves that window strictly above every other visible
\* window.
C17_FocusRaises ==
    [][phase' = "frame" =>
        \A win \in VisibleWindows(world) :
            (/\ win \in Lineage(world, W_FocusState.focused_entity)
             /\ win # s_prev_focused_window) =>
                \A o \in VisibleWindows(world') \ {win} :
                    world'.W_Window[win].z_order > world'.W_Window[o].z_order
    ]_vars

\* a frame has run with the focus on the button inside the navigation group
\* of window 3: no window is recorded as focused and window 3 was not raised
C17_Witness ==
    /\ drv.scenario = "overlay"
    /\ phase = "frame"
    /\ W_FocusState.focused_entity = 7
    /\ 3 \in VisibleWindows(world)
    /\ 3 \in Lineage(world, 7)
    /\ s_prev_focused_window = NoEnt
    /\ \E o \in VisibleWindows(world) \ {3} :
          world.W_Window[o].z_order >= world.W_Window[3].z_order

\* C13 as stated: a frame with an Escape edge and a visible modal dismisses
\* one visible modal of highest z_index (200 without W_OverlayState): its
\* on_dismiss is the only on_dismiss invoked (none when it has no handler),
\* and one scope level is popped.
C13_TopModalDismissed ==
    [][(/\ phase' = "frame"
        /\ EscapeEdge(s_prev_input', s_prev_input)
        /\ VisibleModals(world) # {}) =>
            /\ \E top \in VisibleModals(world) :
                  /\ \A o \in VisibleModals(world) : ModalRank(world, o) <= ModalRank(world, top)
                  /\ {calls'[i][2] : i \in CallsNamed(calls', "on_dismiss")}
                        = IF world.W_Modal[top].on_dismiss THEN {top} ELSE {}
            /\ Cardinality(CallsNamed(calls', "on_dismiss")) <= 1
            /\ PoppedOnce(W_NavigationState, W_NavigationState')
            /\ W_NavigationState.scope_depth > 0 =>
                  W_NavigationState'.scope_depth = W_NavigationState.scope_depth - 1
    ]_vars

\* an Escape frame has run at scope depth 1 with one visible modal, whose
\* z_index is -1: nothing was invoked and the scope is still pushed
C13_Witness ==
    /\ drv.scenario = "dismiss"
    /\ phase = "frame"
    /\ s_prev_input.has_raw_key /\ s_prev_input.raw_key = KEY_ESCAPE
    /\ VisibleModals(world) = {2}
    /\ ModalRank(world, 2) = -1
    /\ calls = <<>>
    /\ W_NavigationState.scope_depth = 1

\* C14 as stated: a frame with an Escape edge, no visible modal and a visible
\* window invokes the on_close of one visible window of highest z_order and
\* of no other, and pops one scope level; a frame without an Escape edge
\* invokes no on_close.
C14_TopWindowClosed ==
    [][phase' = "frame" =>
        /\ (/\ EscapeEdge(s_prev_input', s_prev_input)
            /\ VisibleModals(world) = {}
            /\ VisibleWindows(world) # {}) =>
                /\ \E top \in VisibleWindows(world) :
                      /\ \A o \in VisibleWindows(world) :
                            world.W_Window[o].z_order <= world.W_Window[top].z_order
                      /\ {calls'[i][2] : i \in CallsNamed(calls', "on_close")}
                            = IF world.W_Window[top].on_close THEN {top} ELSE {}
                /\ Cardinality(CallsNamed(calls', "on_close")) <= 1
                /\ PoppedOnce(W_NavigationState, W_NavigationState')
        /\ ~EscapeEdge(s_prev_input', s_prev_input) => CallsNamed(calls', "on_close") = {}
    ]_vars

\* an Escape frame has run at scope depth 1 with no visible modal and one
\* visible window, whose z_order is -1: nothing was invoked and the scope is
\* still pushed
C14_Witness ==
    /\ drv.scenario = "dismiss"
    /\ phase = "frame"
    /\ s_prev_input.has_raw_key /\ s_prev_input.raw_key = KEY_ESCAPE
    /\ VisibleModals(world) = {}
    /\ VisibleWindows(world) = {4}
    /\ world.W_Window[4].z_order = -1
    /\ calls = <<>>
    /\ W_NavigationState.scope_depth = 1

(***************************************************************************)
(* Properties of split-pane navigation, the scope stack and the focus ring *)
(***************************************************************************)
\* the least element of a non-empty set of entities: the first in store order
First(es) == CHOOSE e \in es : \A o \in es : e <= o

\* the navigation scopes that are children, and that are grandchildren, of p
ScopeChildren(w, p) == {c \in DOMAIN w.W_NavigationScope : w.parent[c] = p}

ScopeGrandchildren(w, p) ==
    {g \in DOMAIN w.W_NavigationScope : w.parent[g] # NoEnt /\ w.parent[w.parent[g]] = p}

\* the scope a search under p finds: the first child scope, else the first
\* scope under the first child that holds one, else none
FirstScopeUnder(w, p) ==
    IF ScopeChildren(w, p) # {} THEN First(ScopeChildren(w, p))
    ELSE IF ScopeGrandchildren(w, p) # {}
         THEN LET c == First({w.parent[g] : g \in ScopeGrandchildren(w, p)})
              IN First({g \in ScopeGrandchildren(w, p) : w.parent[g] = c})
         ELSE NoEnt

\* the Ctrl+Arrow keys a split pane of this direction reacts to
SplitKeys(direction) ==
    IF direction = 0 THEN {CELS_KEY_CTRL_LEFT, CELS_KEY_CTRL_RIGHT}
    ELSE {CELS_KEY_CTRL_UP, CELS_KEY_CTRL_DOWN}

\* C18: a frame whose raw key is a Ctrl+Arrow key that the previous frame did
\* not carry, on a split pane with two children whose direction matches the
\* key, with the active scope inside pane i (pane 0 when no scope is active):
\* when a search under the other pane (children first, then grandchildren)
\* finds a navigation scope, that scope is the active scope after the frame
\* and its selected_index is 0; when it finds none, the active scope and
\* every selected_index are as before.
C18_SplitCrossNavigation ==
    [][phase' = "frame" =>
        \A sp \in DOMAIN world.W_SplitPane :
            LET in == s_prev_input'
                panes == {c \in 1..world.n : world.parent[c] = sp}
                pane0 == First(panes)
                pane1 == First(panes \ {pane0})
                active == W_NavigationState.active_scope
                in0 == active = NoEnt \/ pane0 \in Lineage(world, active)
                in1 == active # NoEnt /\ pane1 \in Lineage(world, active)
                target == FirstScopeUnder(world, IF in0 THEN pane1 ELSE pane0)
            IN (/\ in.has_raw_key
                /\ in.raw_key \in SplitKeys(world.W_SplitPane[sp].direction)
                /\ ~(s_prev_input.has_raw_key /\ s_prev_input.raw_key = in.raw_key)
                /\ Cardinality(panes) = 2
                /\ (in0 \/ in1)) =>
                  IF target # NoEnt
                  THEN /\ W_NavigationState'.active_scope = target
                       /\ world'.W_NavigationScope[target].selected_index = 0
                  ELSE /\ W_NavigationState'.active_scope = active
                       /\ \A e \in DOMAIN world.W_NavigationScope :
                             world'.W_NavigationScope[e].selected_index
                                = world.W_NavigationScope[e].selected_index
    ]_vars

\* a Ctrl+Arrow frame has made group 7, a child of pane 3, the active scope
\* and reset it to index 0, while group 4, which had moved with it, is at 1
C18_Witness ==
    /\ drv.scenario = "split"
    /\ phase = "frame"
    /\ s_prev_input.has_raw_key /\ s_prev_input.raw_key = CELS_KEY_CTRL_RIGHT
    /\ W_NavigationState.active_scope = 7
    /\ 7 \in DOMAIN world.W_NavigationScope /\ world.parent[7] = 3
    /\ world.W_NavigationScope[7].selected_index = 0
    /\ world.W_NavigationScope[4].selected_index = 1

\* C19 as stated: scope_depth is 0 exactly when no scope is active.
C19_DepthMatchesScope ==
    drv.scenario = "split" =>
        (W_NavigationState.scope_depth = 0 <=> W_NavigationState.active_scope = NoEnt)

\* a Ctrl+Arrow frame at depth 0 has made a scope active: the depth is still 0
C19_Witness ==
    /\ drv.scenario = "split"
    /\ phase = "frame"
    /\ s_prev_input.has_raw_key /\ s_prev_input.raw_key = CELS_KEY_CTRL_RIGHT
    /\ W_NavigationState.scope_depth = 0
    /\ W_NavigationState.active_scope # NoEnt

\* C20 as stated: after every frame with focus_count > 0, focus_index is
\* within [0, focus_count).
C20_FocusIndexInRing ==
    (drv.scenario = "ring" /\ phase = "frame" /\ W_FocusState.focus_count > 0) =>
        /\ 0 <= W_FocusState.focus_index
        /\ W_FocusState.focus_index < W_FocusState.focus_count

\* a frame without Tab and Shift-Tab has run after the focusable set shrank:
\* focus_count is the new size and focus_index is still the old position
C20_Witness ==
    /\ drv.scenario = "ring"
    /\ phase = "frame"
    /\ ~s_prev_input.key_tab /\ ~s_prev_input.key_shift_tab
    /\ W_FocusState.focus_count = Cardinality(world.W_Focusable)
    /\ W_FocusState.focus_count > 0
    /\ W_FocusState.focus_index >= W_FocusState.focus_count

(***************************************************************************)
(* Properties of window dragging                                           *)
(***************************************************************************)
\* the frame's input carries an edge of the M key
MKeyEdge(in, prev) ==
    in.has_raw_key /\ in.raw_key = KEY_M /\ ~(prev.has_raw_key /\ prev.raw_key = KEY_M)

\* the step is a frame that began in move mode on the window that is still
\* the drag target, and the M key did not toggle the mode
BeganInMoveMode ==
    /\ phase' = "frame"
    /\ s_drag_moving /\ s_drag_target # NoEnt /\ s_drag_target' = s_drag_target
    /\ ~MKeyEdge(s_prev_input', s_prev_input)

\* the step is a frame in which the drag engine reports "input consumed": it
\* ends in move mode, or it began in move mode and accept or cancel ended it
DragConsumed ==
    /\ phase' = "frame"
    /\ s_drag_moving' \/ BeganInMoveMode

\* the change of a coordinate that the edges of one axis ask for
AxisDelta(cur, prev) ==
    (IF cur > AXIS_THRESHOLD /\ prev <= AXIS_THRESHOLD THEN 1 ELSE 0)
    - (IF cur < -AXIS_THRESHOLD /\ prev >= -AXIS_THRESHOLD THEN 1 ELSE 0)

\* the frame's input carries an edge of an arrow
DirectionalEdge(in, prev) ==
    \/ AxisDelta(in.axis_left0, prev.axis_left0) # 0
    \/ AxisDelta(in.axis_left1, prev.axis_left1) # 0

ClampTo(v, lo, hi) == IF v < lo THEN lo ELSE IF v > hi THEN hi ELSE v

Larger(a, b) == IF a > b THEN a ELSE b

\* viewport and window extents as the clamp takes them: 80 x 24 for an
\* unknown terminal, 40 x 10 for a window without size
ViewportWidth(w) == IF w.term.has /\ w.term.width > 0 THEN w.term.width ELSE 80
ViewportHeight(w) == IF w.term.has /\ w.term.height > 0 THEN w.term.height ELSE 24
WindowWidth(win) == IF win.width > 0 THEN win.width ELSE 40
WindowHeight(win) == IF win.height > 0 THEN win.height ELSE 10

\* the position the window e has after a move-mode frame with these edges
MovedPosition(w, e, in, prev) ==
    LET win == w.W_Window[e]
    IN <<ClampTo(win.x + AxisDelta(in.axis_left0, prev.axis_left0), 1,
                 Larger(1, ViewportWidth(w) - WindowWidth(win))),
         ClampTo(win.y + AxisDelta(in.axis_left1, prev.axis_left1), 1,
                 Larger(1, ViewportHeight(w) - WindowHeight(win)))>>

Position(w, e) == <<w.W_Window[e].x, w.W_Window[e].y>>

\* the frame leaves the scopes, the selection flags and the collapsibles as
\* they were and presses no button
NoNavigation ==
    /\ world'.W_NavigationScope = world.W_NavigationScope
    /\ world'.W_Selectable = world.W_Selectable
    /\ world'.W_Collapsible = world.W_Collapsible
    /\ CallsNamed(calls', "on_press") = {}

\* C21 as stated: in a frame in which the drag engine is in move mode and
\* reports input consumed, no scope's selected_index changes, no on_press is
\* invoked, no collapsible is toggled, and a directional edge repositions the
\* window (by one unit, within the clamp).
C21_DragExcludesCycling ==
    [][(drv.scenario = "drag" /\ DragConsumed) =>
          /\ NoNavigation
          /\ DirectionalEdge(s_prev_input', s_prev_input) =>
                Position(world', s_drag_target')
                   = MovedPosition(world, s_drag_target', s_prev_input', s_prev_input)
    ]_vars

\* C21: in a frame in which the drag engine reports input consumed, no
\* scope's selected_index changes, no on_press is invoked and no collapsible
\* is toggled; directional edges reposition the window when the frame began
\* in move mode and stays in it, and leave it where it is in the frame that
\* enters move mode and in the frame in which accept or cancel exits it.
C21_DragExclusion ==
    [][(drv.scenario = "drag" /\ DragConsumed) =>
          /\ NoNavigation
          /\ Position(world', s_drag_target')
                = IF BeganInMoveMode /\ s_drag_moving'
                  THEN MovedPosition(world, s_drag_target', s_prev_input', s_prev_input)
                  ELSE Position(world, s_drag_target')
    ]_vars

\* a down edge in move mode has moved the window of the small terminal from
\* row 2 to row 3; the window's scope still selects its first child, which
\* no pass has flagged
C21_Witness ==
    /\ drv.scenario = "drag"
    /\ phase = "frame"
    /\ s_drag_moving
    /\ s_prev_input.axis_left1 = 10
    /\ world.term.has /\ world.term.width = 6
    /\ world.W_Window[1].y = 3
    /\ world.W_NavigationScope[1].selected_index = 0
    /\ ~world.W_Selectable[2].selected

\* C22 as stated: a frame that ends in move mode changes x or y by exactly
\* one unit per directional edge and leaves 1 <= x <= viewport_width -
\* window_width and 1 <= y <= viewport_height - window_height.
C22_DragClamp ==
    [][(drv.scenario = "drag" /\ phase' = "frame" /\ s_drag_moving') =>
          LET win == world.W_Window[s_drag_target']
              win1 == world'.W_Window[s_drag_target']
              in == s_prev_input'
          IN /\ win1.x - win.x = AxisDelta(in.axis_left0, s_prev_input.axis_left0)
             /\ win1.y - win.y = AxisDelta(in.axis_left1, s_prev_input.axis_left1)
             /\ 1 <= win1.x /\ win1.x <= ViewportWidth(world') - win1.width
             /\ 1 <= win1.y /\ win1.y <= ViewportHeight(world') - win1.height
    ]_vars

\* C22: a frame that began in move mode and stays in it moves x and y by one
\* unit per directional edge and then clamps them, so that 1 <= x <=
\* max(1, viewport_width - window_width) and 1 <= y <= max(1, viewport_height
\* - window_height), with 80 x 24 for an unknown viewport and 40 / 10 for a
\* window width / height that is not positive; the frame that enters move
\* mode and the frame that exits it leave the position as it was.
C22_DragClampWithin ==
    [][(drv.scenario = "drag" /\ DragConsumed) =>
          LET e == s_drag_target'
              win1 == world'.W_Window[e]
          IN IF BeganInMoveMode /\ s_drag_moving'
             THEN /\ Position(world', e)
                       = MovedPosition(world, e, s_prev_input', s_prev_input)
                  /\ 1 <= win1.x
                  /\ win1.x <= Larger(1, ViewportWidth(world') - WindowWidth(win1))
                  /\ 1 <= win1.y
                  /\ win1.y <= Larger(1, ViewportHeight(world') - WindowHeight(win1))
             ELSE Position(world', e) = Position(world, e)
    ]_vars

\* a frame in move mode has clamped the window that is wider and higher than
\* its terminal to column 1 and row 1
C22_Witness ==
    /\ drv.scenario = "drag"
    /\ phase = "frame"
    /\ s_drag_moving
    /\ ~s_prev_input.has_raw_key
    /\ world.term.has /\ world.term.width < world.W_Window[1].width
    /\ world.W_Window[1].x = 1 /\ world.W_Window[1].y = 1

(***************************************************************************)
(* Properties of typing inside a navigation group                          *)
(***************************************************************************)
\* some text input of the store is selected and focused
TextInputActive(w) ==
    \E e \in DOMAIN w.W_TextInputBuffer :
        /\ e \in DOMAIN w.W_Selectable /\ w.W_Selectable[e].selected
        /\ e \in DOMAIN w.W_InteractState /\ w.W_InteractState[e].focused

\* C23 as stated: a frame of the focus system that begins while a text input
\* is selected and focused changes no scope's selected_index.
C23_TypingSuppressesNavigation ==
    [][(drv.scenario = "typing" /\ phase' = "frame" /\ TextInputActive(world)) =>
          \A e \in DOMAIN world.W_NavigationScope :
              world'.W_NavigationScope[e].selected_index
                 = world.W_NavigationScope[e].selected_index
    ]_vars

\* a frame with a down arrow began while the text input was selected and
\* focused: the group has moved its selection to the button and the text
\* input, still focused, is no longer selected
C23_Witness ==
    /\ drv.scenario = "typing"
    /\ phase = "frame"
    /\ drv.active
    /\ s_prev_input.axis_left1 = 10
    /\ world.W_NavigationScope[1].direction = 0
    /\ world.W_NavigationScope[1].selected_index = 1
    /\ world.W_InteractState[2].focused
    /\ ~world.W_Selectable[2].selected
    /\ world.W_Selectable[3].selected

(***************************************************************************)
(* Properties of the clamp systems                                         *)
(***************************************************************************)
\* C24: a run of the integer range clamp that follows a run of the same
\* system, and a run of the scroll clamp that follows a run of the scroll
\* clamp, leaves every component as it is; and a run of either changes no
\* field other than value / scroll_offset.
C24_ClampIdempotent ==
    [][/\ (phase = "W_RangeClampI" /\ phase' = "W_RangeClampI") =>
             world'.W_RangeValueI = world.W_RangeValueI
       /\ (phase = "W_ScrollClamp" /\ phase' = "W_ScrollClamp") =>
             world'.W_Scrollable = world.W_Scrollable
       /\ phase' = "W_RangeClampI" =>
             /\ world' = [world EXCEPT !.W_RangeValueI = world'.W_RangeValueI]
             /\ \A e \in DOMAIN world.W_RangeValueI :
                   world'.W_RangeValueI[e]
                      = [world.W_RangeValueI[e] EXCEPT !.value = world'.W_RangeValueI[e].value]
       /\ phase' = "W_ScrollClamp" =>
             /\ world' = [world EXCEPT !.W_Scrollable = world'.W_Scrollable]
             /\ \A e \in DOMAIN world.W_Scrollable :
                   world'.W_Scrollable[e]
                      = [world.W_Scrollable[e] EXCEPT
                            !.scroll_offset = world'.W_Scrollable[e].scroll_offset]
    ]_vars

\* the integer range clamp has run twice in a row on a range with min > max:
\* the value is max
C24_Witness ==
    /\ drv.scenario = "clamp"
    /\ phase = "W_RangeClampI"
    /\ drv.repeated
    /\ \E e \in DOMAIN world.W_RangeValueI :
          /\ world.W_RangeValueI[e].min > world.W_RangeValueI[e].max
          /\ world.W_RangeValueI[e].value = world.W_RangeValueI[e].max

\* C25 as stated: after a run of the range clamp every RangeValue has
\* min <= value <= max.
C25_RangeInvariant ==
    /\ phase = "W_RangeClampI" =>
          \A e \in DOMAIN world.W_RangeValueI :
              LET r == world.W_RangeValueI[e]
              IN r.min <= r.value /\ r.value <= r.max
    /\ phase = "W_RangeClampF" =>
          \A e \in DOMAIN world.W_RangeValueF :
              LET r == world.W_RangeValueF[e]
              IN /\ ~r.min.nan /\ ~r.value.nan /\ ~r.max.nan
                 /\ r.min.v <= r.value.v /\ r.value.v <= r.max.v

\* C25: after a run of the range clamp a RangeValue with min <= max has
\* min <= value <= max (for floats: when none of value, min and max is NaN);
\* a RangeValue with min > max has value = max.
C25_RangeWithinBounds ==
    /\ phase = "W_RangeClampI" =>
          \A e \in DOMAIN world.W_RangeValueI :
              LET r == world.W_RangeValueI[e]
              IN IF r.min <= r.max THEN r.min <= r.value /\ r.value <= r.max
                 ELSE r.value = r.max
    /\ phase = "W_RangeClampF" =>
          \A e \in DOMAIN world.W_RangeValueF :
              LET r == world.W_RangeValueF[e]
              IN (~r.min.nan /\ ~r.value.nan /\ ~r.max.nan) =>
                    IF r.min.v <= r.max.v THEN r.min.v <= r.value.v /\ r.value.v <= r.max.v
                    ELSE r.value = r.max

\* the float range clamp has run on a range [0, 2] whose value the
\* application had set above it: the value is 2
C25_Witness ==
    /\ drv.scenario = "clamp"
    /\ phase = "W_RangeClampF"
    /\ \E e \in DOMAIN world.W_RangeValueF :
          /\ world.W_RangeValueF[e].min = Float(0)
          /\ world.W_RangeValueF[e].max = Float(2)
          /\ world.W_RangeValueF[e].value = Float(2)

(***************************************************************************)
(* Properties of the edit operations                                       *)
(***************************************************************************)
\* the string a buffer holds: its first length bytes
Text(buf) == SubSeq(buf.buffer, 1, buf.length)

\* the sequence es without its element at position i (1-based)
Remove(es, i) == SubSeq(es, 1, i - 1) \o SubSeq(es, i + 1, Len(es))

\* every byte at offset byte_length and beyond is zero
ZeroTail(buf) == \A i \in (buf.byte_length + 1)..Len(buf.buffer) : buf.buffer[i] = 0

\* the frame's input asks for no cursor movement
NoCursorKeys(in) == in.axis_left0 = 0 /\ ~in.key_home /\ ~in.key_end

\* C26: in a frame on a selected and focused text input whose initialised
\* buffer holds the string s with the cursor at c, a printable key k alone,
\* with length below the capacity, yields s[0..c) + k + s[c..) with cursor
\* c + 1; backspace alone with c > 0 yields s without the character at c - 1
\* with cursor c - 1; delete alone with c < length yields s without the
\* character at c with cursor c; in each case length and byte_length change
\* by exactly one and every byte at offset byte_length and beyond is zero.
C26_EditsMatchSequences ==
    [][phase' = "text" =>
        \A e \in DOMAIN world.W_TextInputBuffer :
            LET buf == world.W_TextInputBuffer[e]
                buf1 == world'.W_TextInputBuffer[e]
                in == s_prev_input'
                s == Text(buf)
                c == buf.cursor_pos
                key == in.has_raw_key /\ in.raw_key >= KEY_PRINT_MIN
                       /\ in.raw_key <= KEY_PRINT_MAX
            IN (/\ buf.initialized
                /\ world.W_Selectable[e].selected /\ world.W_InteractState[e].focused
                /\ NoCursorKeys(in)) =>
                  /\ (/\ key /\ ~in.key_backspace /\ ~in.key_delete
                      /\ buf.length < Capacity(world.W_TextInput[e].max_length)) =>
                        /\ Text(buf1) = SubSeq(s, 1, c) \o <<in.raw_key>>
                                           \o SubSeq(s, c + 1, Len(s))
                        /\ buf1.cursor_pos = c + 1
                        /\ buf1.length = buf.length + 1
                        /\ buf1.byte_length = buf.byte_length + 1
                        /\ ZeroTail(buf1)
                  /\ (~key /\ in.key_backspace /\ ~in.key_delete /\ c > 0) =>
                        /\ Text(buf1) = Remove(s, c)
                        /\ buf1.cursor_pos = c - 1
                        /\ buf1.length = buf.length - 1
                        /\ buf1.byte_length = buf.byte_length - 1
                        /\ ZeroTail(buf1)
                  /\ (~key /\ ~in.key_backspace /\ in.key_delete /\ c < buf.length) =>
                        /\ Text(buf1) = Remove(s, c + 1)
                        /\ buf1.cursor_pos = c
                        /\ buf1.length = buf.length - 1
                        /\ buf1.byte_length = buf.byte_length - 1
                        /\ ZeroTail(buf1)
    ]_vars

\* a frame with the key "a" alone has inserted it before the last typed
\* character of a text that held 254 characters
C26_Witness ==
    /\ drv.scenario = "text"
    /\ phase = "text"
    /\ s_prev_input = KeyInput(97)
    /\ \E e \in DOMAIN world.W_TextInputBuffer :
          LET buf == world.W_TextInputBuffer[e]
          IN /\ buf.length = NearFull + 1
             /\ buf.cursor_pos = NearFull
             /\ buf.buffer[NearFull] = 97
             /\ buf.buffer[NearFull + 1] = KeyAt(NearFull)
             /\ buf.buffer[NearFull - 1] = KeyAt(NearFull - 1)

\* C27: after a frame on a selected and focused text input, scroll_x >= 0
\* and scroll_x <= cursor_pos < scroll_x + 30, and scroll_x differs from its
\* value before the frame only when the cursor the frame ends with lies
\* outside the 30 columns that began at the old scroll_x.
C27_ScrollWindow ==
    [][phase' = "text" =>
        \A e \in DOMAIN world.W_TextInputBuffer :
            LET buf == world.W_TextInputBuffer[e]
                buf1 == world'.W_TextInputBuffer[e]
            IN (world.W_Selectable[e].selected /\ world.W_InteractState[e].focused) =>
                  /\ buf1.scroll_x >= 0
                  /\ buf1.scroll_x <= buf1.cursor_pos
                  /\ buf1.cursor_pos < buf1.scroll_x + VISIBLE_WIDTH
                  /\ buf1.scroll_x # buf.scroll_x =>
                        \/ buf1.cursor_pos < buf.scroll_x
                        \/ buf1.cursor_pos >= buf.scroll_x + VISIBLE_WIDTH
    ]_vars

\* a frame with the Home key has run on a text input that holds more than
\* 250 characters: the cursor and scroll_x are both 0
C27_Witness ==
    /\ drv.scenario = "text"
    /\ phase = "text"
    /\ s_prev_input.key_home /\ ~s_prev_input.has_raw_key
    /\ \E e \in DOMAIN world.W_TextInputBuffer :
          /\ world.W_Selectable[e].selected /\ world.W_InteractState[e].focused
          /\ world.W_TextInputBuffer[e].length > NearFull - MaxTextFrames
          /\ world.W_TextInputBuffer[e].cursor_pos = 0
          /\ world.W_TextInputBuffer[e].scroll_x = 0

(***************************************************************************)
(* Properties of activation and of the selection flags                     *)
(***************************************************************************)
\* the number of selectable children of scope e that precede child c in the
\* store: c's position (0-based) among them
Rank(w, e, c) == Cardinality({d \in SelectableChildren(w, e) : d < c})

\* C28: in a frame in which the navigation pass runs, for every scope and
\* every selectable child c of it: on_press is invoked once for c when the
\* frame carries an accept edge, c is the child at the scope's selected_index
\* as the frame leaves it, and c carries a button with a callback, and not
\* at all otherwise; the collapsed flag of c is flipped when the frame
\* carries an accept edge and c is that child, and keeps its value otherwise.
C28_ActivationDispatch ==
    [][(drv.scenario = "none" /\ phase' = "frame") =>
        \A e \in DOMAIN world.W_NavigationScope :
            \A c \in SelectableChildren(world, e) :
                LET edge == s_prev_input'.button_accept /\ ~s_prev_input.button_accept
                    chosen == Rank(world, e, c) = world'.W_NavigationScope[e].selected_index
                    presses == Cardinality(CallsOf(calls', "on_press", c))
                IN /\ presses = IF /\ edge /\ chosen /\ c \in DOMAIN world.W_Button
                                   /\ world.W_Button[c].on_press
                                THEN 1 ELSE 0
                   /\ c \in DOMAIN world.W_Collapsible =>
                         world'.W_Collapsible[c].collapsed
                            = IF edge /\ chosen THEN ~world.W_Collapsible[c].collapsed
                              ELSE world.W_Collapsible[c].collapsed
    ]_vars

\* a frame with an accept edge and a down edge has run on a vertical menu of
\* four children: the selection is on the second selectable child, the
\* collapsible, which is collapsed, and no button was pressed
C28_Witness ==
    /\ drv.scenario = "none"
    /\ phase = "frame"
    /\ s_prev_input.button_accept /\ s_prev_input.axis_left1 > AXIS_THRESHOLD
    /\ world.n = 1 + MaxChildren
    /\ world.W_NavigationScope[1].direction = 0
    /\ world.W_NavigationScope[1].selected_index = 1
    /\ world.W_Collapsible[4].collapsed
    /\ world.W_Selectable[4].selected
    /\ calls = <<>>

\* C29 as stated: a frame without a Ctrl+Arrow key that begins while
\* active_scope names a scope leaves the selected_index of every other scope
\* as it was, presses no button and toggles no collapsible among the children
\* of another scope.
C29_FocusIsolation ==
    [][(/\ drv.scenario = "split" /\ phase' = "frame"
        /\ W_NavigationState.active_scope \in DOMAIN world.W_NavigationScope
        /\ ~s_prev_input'.has_raw_key) =>
          \A e \in DOMAIN world.W_NavigationScope \ {W_NavigationState.active_scope} :
              /\ world'.W_NavigationScope[e].selected_index
                    = world.W_NavigationScope[e].selected_index
              /\ \A c \in SelectableChildren(world, e) :
                    /\ CallsOf(calls', "on_press", c) = {}
                    /\ c \in DOMAIN world.W_Collapsible =>
                          world'.W_Collapsible[c] = world.W_Collapsible[c]
    ]_vars

\* a frame with a down arrow has run while the group of the second pane was
\* the active scope: the group of the first pane has moved its selection
\* back to its first button
C29_Witness ==
    /\ drv.scenario = "split"
    /\ phase = "frame"
    /\ s_prev_input.axis_left1 > AXIS_THRESHOLD
    /\ W_NavigationState.active_scope = 7
    /\ 7 \in DOMAIN world.W_NavigationScope
    /\ world.W_NavigationScope[7].selected_index = 1
    /\ world.W_NavigationScope[4].selected_index = 0
    /\ world.W_Selectable[9].selected

\* C30 as stated: at the end of every frame in which the navigation pass ran,
\* in every scope with selectable children the children whose
\* Selectable.selected is true, and those whose InteractState.selected is
\* true, are exactly the child at the scope's selected_index.
C30_FlagsTrackIndex ==
    (drv.scenario = "split" /\ phase = "frame") =>
        \A e \in DOMAIN world.W_NavigationScope :
            \A c \in SelectableChildren(world, e) :
                LET chosen == Rank(world, e, c) = world.W_NavigationScope[e].selected_index
                IN /\ world.W_Selectable[c].selected = chosen
                   /\ c \in DOMAIN world.W_InteractState =>
                         world.W_InteractState[c].selected = chosen

\* a Ctrl+Right frame has made the group of the second pane the active scope
\* and reset its selected_index to 0 while its second button is still the one
\* flagged selected
C30_Witness ==
    /\ drv.scenario = "split"
    /\ phase = "frame"
    /\ s_prev_input.has_raw_key /\ s_prev_input.raw_key = CELS_KEY_CTRL_RIGHT
    /\ W_NavigationState.active_scope = 7
    /\ 7 \in DOMAIN world.W_NavigationScope
    /\ world.W_NavigationScope[7].selected_index = 0
    /\ world.W_Selectable[12].selected
    /\ ~world.W_Selectable[11].selected

(***************************************************************************)
(* Several split panes                                                     *)
(***************************************************************************)
\* entity e is p or lies below p
Under(w, e, p) == e # NoEnt /\ p \in Lineage(w, e)

\* the children of a split pane entity
Panes(w, sp) == {c \in 1..w.n : w.parent[c] = sp}

\* the split panes with two children one of which holds e
HoldingSplits(w, e) ==
    {sp \in DOMAIN w.W_SplitPane :
        Cardinality(Panes(w, sp)) = 2 /\ \E p \in Panes(w, sp) : Under(w, e, p)}

\* the frame's raw key is a Ctrl+Arrow key
SplitKey(in) ==
    in.has_raw_key /\ in.raw_key \in CELS_KEY_CTRL_UP..CELS_KEY_CTRL_LEFT

\* no navigation scope's selected_index differs between w and w1
SameIndexes(w, w1) ==
    \A e \in DOMAIN w.W_NavigationScope :
        w1.W_NavigationScope[e].selected_index = w.W_NavigationScope[e].selected_index

\* C31 as stated: in a frame with a Ctrl+Arrow edge and an active scope, an
\* active scope that changes moves from one pane to the other pane of a split
\* pane that holds it, and no selected_index changes but that of the new
\* active scope.
C31_CrossNavigationWithinSplit ==
    [][(phase' = "frame" /\ SplitKey(s_prev_input')
        /\ ~(s_prev_input.has_raw_key /\ s_prev_input.raw_key = s_prev_input'.raw_key)
        /\ W_NavigationState.active_scope # NoEnt) =>
        LET active == W_NavigationState.active_scope
            after == W_NavigationState'.active_scope
        IN /\ after # active =>
                \E sp \in HoldingSplits(world, active) :
                    \E p, q \in Panes(world, sp) :
                        p # q /\ Under(world, active, p) /\ Under(world, after, q)
           /\ \A e \in DOMAIN world.W_NavigationScope :
                 world'.W_NavigationScope[e].selected_index
                    # world.W_NavigationScope[e].selected_index => e = after
    ]_vars

\* with the split panes side by side and one scope pushed, a Ctrl+Right frame
\* has ended with group 10, under split pane 4, as the active scope
C31_Witness ==
    /\ drv.scenario = "panes"
    /\ phase = "frame"
    /\ s_prev_input.has_raw_key /\ s_prev_input.raw_key = CELS_KEY_CTRL_RIGHT
    /\ world.parent[4] = NoEnt /\ world.parent[6] = 4
    /\ world.W_SplitPane[4].direction = 0
    /\ W_NavigationState.scope_depth = 1
    /\ W_NavigationState.active_scope = 10

\* C32: a frame whose Ctrl+Arrow key is held from the previous frame, or in
\* which every split pane has fewer than two children or a direction that
\* does not match the key, leaves active_scope, scope_depth and every
\* scope's selected_index as they were.
C32_SkippedSplitPanes ==
    [][(phase' = "frame" /\ SplitKey(s_prev_input')
        /\ (\/ (s_prev_input.has_raw_key /\ s_prev_input.raw_key = s_prev_input'.raw_key)
            \/ \A sp \in DOMAIN world.W_SplitPane :
                  \/ Cardinality(Panes(world, sp)) < 2
                  \/ s_prev_input'.raw_key \notin SplitKeys(world.W_SplitPane[sp].direction))) =>
        /\ W_NavigationState' = W_NavigationState
        /\ SameIndexes(world, world')
    ]_vars

\* a Ctrl+Up frame over the horizontal split pane 1 and the vertical split
\* pane 4 with its one child, with group 7 pushed and at index 1
C32_Witness ==
    /\ drv.scenario = "panes"
    /\ phase = "frame"
    /\ s_prev_input.has_raw_key /\ s_prev_input.raw_key = CELS_KEY_CTRL_UP
    /\ world.W_SplitPane[4].direction = 1 /\ world.parent[6] = NoEnt
    /\ W_NavigationState = [active_scope |-> 7, scope_depth |-> 1]
    /\ world.W_NavigationScope[7].selected_index = 1

(***************************************************************************)
(* A modal shown and dismissed                                             *)
(***************************************************************************)
\* C33 as stated: the first frame that dismisses the modal after it was shown
\* leaves scope_depth and active_scope at their values from before it was
\* shown.
C33_ModalBalance ==
    [][(phase' = "frame" /\ drv.shown /\ ~drv.dismissed
        /\ Called(calls', "on_dismiss", 1)) =>
          W_NavigationState' = drv.before
    ]_vars

\* the modal was shown over a stack of depth 1 and an Escape frame has
\* dismissed it: the depth is 0
C33_Witness ==
    /\ drv.scenario = "balance"
    /\ phase = "frame"
    /\ drv.shown /\ drv.dismissed
    /\ Called(calls, "on_dismiss", 1)
    /\ drv.before = [active_scope |-> 4, scope_depth |-> 1]
    /\ W_NavigationState = [active_scope |-> NoEnt, scope_depth |-> 0]

(***************************************************************************)
(* The scope stack interface                                               *)
(***************************************************************************)
\* C34: a pop never leaves a negative depth; at depth 0 it leaves depth 0 and
\* no active scope; at depth d > 0 it leaves depth d - 1, with no active
\* scope when d - 1 is 0 and the active scope as it was otherwise.  A push of
\* e leaves the depth one higher and e as the active scope, which is what
\* widgets_nav_scope_active returns.
C34_ScopeSemantics ==
    [][phase' = "env" =>
        LET d == W_NavigationState.scope_depth
            d1 == W_NavigationState'.scope_depth
            a == W_NavigationState.active_scope
            a1 == W_NavigationState'.active_scope
        IN /\ drv'.op = "pop" =>
                /\ d1 >= 0
                /\ d = 0 => d1 = 0 /\ a1 = NoEnt
                /\ d > 0 => d1 = d - 1 /\ a1 = (IF d1 = 0 THEN NoEnt ELSE a)
           /\ drv'.op = "push" =>
                /\ d1 = d + 1
                /\ a1 = drv'.arg
                /\ drv'.active = drv'.arg
    ]_vars

\* a pop at depth 2 has left depth 1 and group 4 active
C34_Witness ==
    /\ drv.scenario = "scope"
    /\ drv.op = "pop"
    /\ W_NavigationState = [active_scope |-> 4, scope_depth |-> 1]

(***************************************************************************)
(* The order of the windows across a raise                                 *)
(***************************************************************************)
\* C35: a frame that records a different, non-null focused window leaves that
\* window with a z_order strictly above every other visible window, leaves
\* every two other visible windows ordered as they were, and leaves the raised
\* window and every window whose z_order it changed with z_index = 150 +
\* z_order; any other frame changes no z_order.
C35_RaiseKeepsOrder ==
    [][phase' = "frame" =>
        LET raised == s_prev_focused_window'
            others == VisibleWindows(world') \ {raised}
        IN IF raised # NoEnt /\ raised # s_prev_focused_window
           THEN /\ \A o \in others :
                      world'.W_Window[raised].z_order > world'.W_Window[o].z_order
                /\ \A a, b \in others :
                      (world.W_Window[a].z_order < world.W_Window[b].z_order)
                         <=> (world'.W_Window[a].z_order < world'.W_Window[b].z_order)
                /\ \A e \in DOMAIN world.W_Window :
                      (e = raised \/ world'.W_Window[e].z_order # world.W_Window[e].z_order) =>
                          world'.W_OverlayState[e].z_index
                             = WINDOW_Z_BASE + world'.W_Window[e].z_order
           ELSE \A e \in DOMAIN world.W_Window :
                   world'.W_Window[e].z_order = world.W_Window[e].z_order
    ]_vars

\* window 2 was raised from the bottom of a stack that reached the ceiling:
\* the band was compacted, windows 3 and 4 stand at 1 and 2 in their old
\* order, and window 2 is above them
C35_Witness ==
    /\ drv.scenario = "overlay"
    /\ phase = "frame"
    /\ s_prev_focused_window = 2
    /\ VisibleWindows(world) = {2, 3, 4}
    /\ world.W_Window[3].z_order = 1 /\ world.W_OverlayState[3].z_index = WINDOW_Z_BASE + 1
    /\ world.W_Window[4].z_order = 2
    /\ world.W_Window[2].z_order = 3

(***************************************************************************)
(* The scrolled list                                                       *)
(***************************************************************************)
\* the larger of 0 and total_count - visible_count
MaxScroll(scr) ==
    IF scr.total_count - scr.visible_count > 0 THEN scr.total_count - scr.visible_count ELSE 0

ScrollKeyEdge(in, prev) ==
    \/ in.key_page_up /\ ~prev.key_page_up
    \/ in.key_page_down /\ ~prev.key_page_down
    \/ in.key_home /\ ~prev.key_home
    \/ in.key_end /\ ~prev.key_end

\* C37: after a run of the focus system without a PgUp, PgDn, Home or End
\* edge, for a scroll container with visible_count > 0 whose search (children
\* first, then grandchildren) finds a navigation scope, the scope's
\* selected_index is in [scroll_offset, scroll_offset + visible_count), and
\* the scroll_offset is the one from before the run when that interval
\* already held the selected_index.
C37_AutoScrollKeepsSelectionVisible ==
    [][(phase' = "frame" /\ ~ScrollKeyEdge(s_prev_input', s_prev_input)) =>
        \A sc \in world.W_ScrollContainer \cap DOMAIN world.W_Scrollable :
            LET scope == FirstScopeUnder(world, sc)
                visible == world.W_Scrollable[sc].visible_count
                before == world.W_Scrollable[sc].scroll_offset
                after == world'.W_Scrollable[sc].scroll_offset
            IN (visible > 0 /\ scope # NoEnt) =>
                  LET sel == world'.W_NavigationScope[scope].selected_index
                  IN /\ after <= sel /\ sel < after + visible
                     /\ (before <= sel /\ sel < before + visible) => after = before
    ]_vars

\* the selection moved down to index 3 of a list of height 2 under the
\* label: the focus system has scrolled to offset 2
C37_Witness ==
    /\ drv.scenario = "list"
    /\ phase = "frame"
    /\ s_prev_input.axis_left1 = 10
    /\ world.parent[3] = 2
    /\ world.W_Scrollable[1].visible_count = 2
    /\ world.W_NavigationScope[3].selected_index = 3
    /\ world.W_Scrollable[1].scroll_offset = 2

(***************************************************************************)
(* Move mode over two windows                                              *)
(***************************************************************************)
\* the visible windows that carry W_Draggable
VisibleDraggables(w) == VisibleWindows(w) \cap DOMAIN w.W_Draggable

\* the topmost visible draggable window: the first in store order among those
\* of highest z_order, none when there is none
TopDraggable(w) ==
    LET top == {e \in VisibleDraggables(w) :
                   \A o \in VisibleDraggables(w) :
                       w.W_Window[o].z_order <= w.W_Window[e].z_order}
    IN IF top = {} THEN NoEnt ELSE First(top)

C39_MoveModeBoundToTarget ==
    [][phase' = "frame" =>
        LET target == TopDraggable(world')
        IN /\ s_drag_moving' => (target # NoEnt /\ s_drag_target' = target)
           /\ (target # s_drag_target /\ ~MKeyEdge(s_prev_input', s_prev_input)) =>
                 ~s_drag_moving'
           /\ (target # s_drag_target \/ ~s_drag_moving) =>
                 \A e \in DOMAIN world.W_Window : Position(world', e) = Position(world, e)
    ]_vars

\* window 1 was in move mode, window 2 was raised over it, and a frame with
\* the right arrow has ended: the target is window 2, move mode is off and
\* window 2 has not moved
C39_Witness ==
    /\ drv.scenario = "desk"
    /\ phase = "frame"
    /\ s_prev_input.axis_left0 = 10
    /\ s_drag_target = 2
    /\ ~s_drag_moving
    /\ world.W_Draggable[1].moving
    /\ world.W_Window[2].z_order > world.W_Window[1].z_order
    /\ Position(world, 2) = <<0, 0>>

\* C40 as stated: a frame with an edge of the cancel button that ends the
\* move mode of its target invokes no on_dismiss and no on_close and leaves
\* the navigation state as it was.
C40_ExitConsumed ==
    [][(/\ phase' = "frame"
        /\ s_drag_moving /\ ~s_drag_moving' /\ s_drag_target' = s_drag_target
        /\ s_prev_input'.button_cancel /\ ~s_prev_input.button_cancel) =>
          /\ CallsNamed(calls', "on_dismiss") = {}
          /\ CallsNamed(calls', "on_close") = {}
          /\ W_NavigationState' = W_NavigationState
    ]_vars

\* an Escape press has ended the move mode of window 1: the same frame has
\* invoked the window's on_close and popped the scope
C40_Witness ==
    /\ drv.scenario = "desk"
    /\ phase = "frame"
    /\ drv.exit
    /\ s_drag_target = 1
    /\ s_prev_input.button_cancel
    /\ s_prev_input.has_raw_key /\ s_prev_input.raw_key = KEY_ESCAPE
    /\ Called(calls, "on_close", 1)
    /\ W_NavigationState = [active_scope |-> NoEnt, scope_depth |-> 0]

====
